---- MODULE Spec2Model ----
(***************************************************************************)
(* CircularBuffer: the lock-free fixed ring (CircularBufferFixed<T, N>)    *)
(* and the mutex-guarded deque (CircularBufferDynamic<T>), T = int, and    *)
(* the class CircularBuffer<T, N> as one thread uses it.                   *)
(*                                                                         *)
(* Every access to an atomic member (m_head, m_tail, m_count) is one step  *)
(* of the calling thread; the steps of different threads interleave        *)
(* freely (sequentially consistent interleaving; the weaker memory orders  *)
(* the code asks for are not modelled).  m_sum and m_sum_squares are       *)
(* updated by two commuting fetch_add/fetch_sub calls that nothing but the *)
(* statistics getters read; the two calls are one step.                    *)
(* compare_exchange_weak may fail spuriously: its failure branch is always *)
(* enabled.                                                                *)
(***************************************************************************)
EXTENDS Integers, Sequences, FiniteSets, TLC

\* ------------------------------------------------------------------ bounds
\* largest capacity: template parameter N of the fixed store, constructor
\* argument size (m_max_size) of the dynamic store
N == 3
\* capacity of the store in the concurrent specifications in which every
\* thread may call every operation
NConc == 2
\* number of threads of the concurrent specifications in which every
\* thread may call every operation
NThreads == 2
\* number of producer threads of the specification with producers and one
\* consumer thread
NProducers == 2
\* calls of push/emplace and of pop/top_pop in one behaviour, one thread
MaxPush == 5
MaxPop == 4
\* the same, all threads together, in the concurrent specifications
MaxPushConc == 3
MaxPopConc == 3
\* the same for the threads that push and pop while another calls reset
MaxPushReset == 1
MaxPopReset == 1
\* copy constructions, move constructions and assignments in one behaviour,
\* and the number of times the calls switch from one buffer to the other
MaxCopy == 2
MaxSelect == 1
\* width of size_t in the model: m_count is unsigned and wraps modulo
\* 2^SizeBits (the program's size_t has 64 bits, more than TLC's integers)
SizeBits == 8

\* thread 1 .. NThreads, or the consumer 1 and the producers after it
Threads == 1 .. (IF NThreads > NProducers + 1 THEN NThreads ELSE NProducers + 1)
Slots(n) == 0 .. (n - 1)
SizeMod == 2 ^ SizeBits
\* a slot of std::array<int, N> that was never written holds an
\* indeterminate value
Junk == {-1, 0}
Kinds == {"fixed", "dynamic"}

VARIABLES
    kind,       \* the store under test
    fixed,      \* members of CircularBufferFixed
    dynamic,    \* members of CircularBufferDynamic
    pc,         \* per thread: the statement it is at
    loc,        \* per thread: locals of the running call, its result
    ghost,      \* history: counters and observers, never read by the code
    copy        \* a second buffer: the copy of the store, or its source

vars == <<kind, fixed, dynamic, pc, loc, ghost, copy>>

\* ------------------------------------------------------------ pure helpers
RECURSIVE SeqSum(_)
SeqSum(s) == IF s = <<>> THEN 0 ELSE Head(s) + SeqSum(Tail(s))

Squares(s) == [i \in 1 .. Len(s) |-> s[i] * s[i]]

Range(s) == {s[i] : i \in 1 .. Len(s)}

\* std::min_element, std::max_element over a non-empty range
min_element(s) == CHOOSE x \in Range(s) : \A y \in Range(s) : x <= y

max_element(s) == CHOOSE x \in Range(s) : \A y \in Range(s) : x >= y

\* std::sort: ascending, or descending with std::greater or reverse iterators
RECURSIVE sort(_)
sort(s) ==
    IF s = <<>> THEN s
    ELSE LET m == min_element(s)
             i == CHOOSE j \in 1 .. Len(s) : s[j] = m
         IN <<m>> \o sort(SubSeq(s, 1, i - 1) \o SubSeq(s, i + 1, Len(s)))

Reverse(s) == [i \in 1 .. Len(s) |-> s[Len(s) + 1 - i]]

sort_greater(s) == Reverse(sort(s))

\* what std::nth_element(first, first + n, last) leaves at position n
\* (counted from 0) of the range s
nth_element(s, n) == sort(s)[n + 1]

\* a double is an exact fraction <<numerator, denominator>> of integers,
\* or the square root of one
Double(x) == <<x, 1>>

DoubleSub(a, b) == <<a[1] * b[2] - b[1] * a[2], a[2] * b[2]>>

DoubleAdd(a, b) == <<a[1] * b[2] + b[1] * a[2], a[2] * b[2]>>

DoubleMul(a, b) == <<a[1] * b[1], a[2] * b[2]>>

DoubleDiv(a, b) == <<a[1] * b[2], a[2] * b[1]>>

DoubleEq(a, b) == a[1] * b[2] = b[1] * a[2]

Sqrt(a) == [sqrt |-> a]

nullopt == <<>>
Some(v) == <<v>>

\* std::optional::value_or
value_or(o, d) == IF o = nullopt THEN d ELSE o[1]

\* size_t arithmetic
SizeAdd(a, b) == (a + b) % SizeMod
SizeSub(a, b) == (a - b + SizeMod) % SizeMod

\* ------------------------------------------------- CircularBufferFixed
\* a cursor that stays on the last slot instead of wrapping
increment_saturating(value) == IF value + 1 = fixed.N THEN value ELSE value + 1

increment(value) == (value + 1) % fixed.N

is_empty == fixed.m_count = 0

is_full == fixed.m_count = fixed.N

get_size == fixed.m_count

\* a top that reads the first slot of the array whatever m_head is
get_top_first_slot == IF is_empty THEN nullopt ELSE Some(fixed.m_buffer[0])

get_top == IF is_empty THEN nullopt ELSE Some(fixed.m_buffer[fixed.m_head])

\* the elements a single-threaded drain returns: the m_count slots from
\* m_head on, wrapping (only meaningful while m_count <= N)
FixedLiveOf(f) == [i \in 1 .. f.m_count |-> f.m_buffer[(f.m_head + i - 1) % f.N]]

FixedLive == FixedLiveOf(fixed)

\* a last that reads the slot at m_tail instead of the one behind it
get_last_at_tail == IF is_empty THEN nullopt ELSE Some(fixed.m_buffer[fixed.m_tail])

get_last ==
    IF is_empty THEN nullopt
    ELSE LET _tail_position == IF fixed.m_tail = 0 THEN fixed.N - 1 ELSE fixed.m_tail - 1
         IN Some(fixed.m_buffer[_tail_position])

\* m_buffer.begin() .. m_buffer.end(), and m_buffer.begin() ..
\* m_buffer.begin() + m_count: the ranges the statistics getters work on
FixedArray == [i \in 1 .. fixed.N |-> fixed.m_buffer[i - 1]]

FixedPrefix == SubSeq(FixedArray, 1, fixed.m_count)

FixedRest == SubSeq(FixedArray, fixed.m_count + 1, fixed.N)

\* the sum of a buffer that is not asked whether it is empty
get_sum_unchecked == Some(fixed.m_sum)

get_sum == IF is_empty THEN nullopt ELSE Some(fixed.m_sum)

get_mean ==
    IF is_empty THEN nullopt
    ELSE Some(DoubleDiv(Double(fixed.m_sum), Double(fixed.m_count)))

get_variance ==
    IF is_empty THEN nullopt
    ELSE LET count_ == fixed.m_count
         IN IF count_ < 2 THEN nullopt
            ELSE LET mean_ == value_or(get_mean, Double(0))
                 IN Some(DoubleMul(
                        DoubleSub(DoubleDiv(Double(fixed.m_sum_squares), Double(count_)),
                                  DoubleMul(mean_, mean_)),
                        DoubleDiv(Double(count_), Double(count_ - 1))))

get_standard_deviation ==
    IF is_empty THEN nullopt ELSE Some(Sqrt(value_or(get_variance, Double(0))))

get_min == IF is_empty THEN nullopt ELSE Some(min_element(FixedPrefix))

get_max == IF is_empty THEN nullopt ELSE Some(max_element(FixedPrefix))

\* the whole array, its first m_count slots sorted
get_sorted == IF is_empty THEN nullopt ELSE Some(sort(FixedPrefix) \o FixedRest)

get_reverse_sorted ==
    IF is_empty THEN nullopt ELSE Some(sort_greater(FixedPrefix) \o FixedRest)

\* std::nth_element runs over the whole array, sorted_buffer.begin() ..
\* sorted_buffer.end()
get_median ==
    IF is_empty THEN nullopt
    ELSE LET sorted_buffer == FixedArray
             count_ == fixed.m_count
             half_count_ == count_ \div 2
         IN IF count_ = 1 THEN Some(Double(sorted_buffer[1]))
            ELSE IF count_ % 2 = 0
                 THEN LET median_1 == Double(nth_element(sorted_buffer, half_count_))
                          median_2 == Double(nth_element(sorted_buffer, half_count_ - 1))
                      IN Some(DoubleDiv(DoubleAdd(median_1, median_2), Double(2)))
                 ELSE Some(Double(nth_element(sorted_buffer, half_count_)))

\* ------------------------------------------------- CircularBufferDynamic
DynLive == dynamic.m_buffer

dyn_get_sum == IF dynamic.m_buffer = <<>> THEN nullopt ELSE Some(dynamic.m_sum)

dyn_get_mean ==
    IF dynamic.m_buffer = <<>> THEN nullopt
    ELSE Some(DoubleDiv(Double(dynamic.m_sum), Double(Len(dynamic.m_buffer))))

dyn_get_variance ==
    IF dynamic.m_buffer = <<>> THEN nullopt
    ELSE LET size_ == Len(dynamic.m_buffer)
         IN IF size_ < 2 THEN nullopt
            ELSE LET mean_ == value_or(dyn_get_mean, Double(0))
                 IN Some(DoubleMul(
                        DoubleSub(DoubleDiv(Double(dynamic.m_sum_squares), Double(size_)),
                                  DoubleMul(mean_, mean_)),
                        DoubleDiv(Double(size_), Double(size_ - 1))))

dyn_get_standard_deviation ==
    IF dynamic.m_buffer = <<>> THEN nullopt
    ELSE Some(Sqrt(value_or(dyn_get_variance, Double(0))))

dyn_get_min ==
    IF dynamic.m_buffer = <<>> THEN nullopt ELSE Some(min_element(dynamic.m_buffer))

dyn_get_max ==
    IF dynamic.m_buffer = <<>> THEN nullopt ELSE Some(max_element(dynamic.m_buffer))

dyn_get_sorted ==
    IF dynamic.m_buffer = <<>> THEN nullopt ELSE Some(sort(dynamic.m_buffer))

dyn_get_reverse_sorted ==
    IF dynamic.m_buffer = <<>> THEN nullopt ELSE Some(sort_greater(dynamic.m_buffer))

\* std::partial_sort_copy into _temp: the half_size_ + 1 smallest elements
\* of the deque, ascending
dyn_get_median ==
    IF dynamic.m_buffer = <<>> THEN nullopt
    ELSE IF Len(dynamic.m_buffer) = 1 THEN Some(Double(Head(dynamic.m_buffer)))
    ELSE LET size_ == Len(dynamic.m_buffer)
             half_size_ == size_ \div 2
             _temp == SubSeq(sort(dynamic.m_buffer), 1, half_size_ + 1)
         IN IF size_ % 2 = 0
            THEN LET median_1 == Double(_temp[half_size_ + 1])
                     median_2 == Double(_temp[half_size_])
                 IN Some(DoubleDiv(DoubleAdd(median_1, median_2), Double(2)))
            ELSE Some(Double(_temp[half_size_ + 1]))

\* ------------------------------------------------------------ observers
Capacity == IF kind = "fixed" THEN fixed.N ELSE dynamic.m_max_size

Size == IF kind = "fixed" THEN get_size ELSE Len(dynamic.m_buffer)

Sum == IF kind = "fixed" THEN fixed.m_sum ELSE dynamic.m_sum

SumSquares == IF kind = "fixed" THEN fixed.m_sum_squares ELSE dynamic.m_sum_squares

Live == IF kind = "fixed" THEN FixedLive ELSE DynLive

Top == IF kind = "fixed" THEN get_top
       ELSE IF dynamic.m_buffer = <<>> THEN nullopt ELSE Some(Head(dynamic.m_buffer))

\* the members of the store
Store == IF kind = "fixed" THEN fixed ELSE dynamic

\* only one thread uses the store
Sequential == \A t \in Threads : t # 1 => pc[t] = "off"

OthersIdle(t) == \A u \in Threads \ {t} : pc[u] \in {"idle", "off"}

\* push(const T&), push(T&&), emplace(args...)
PushOps == {"push", "push_move", "emplace"}

\* ---------------------------------------------------------------------
\* The bounded FIFO a store stands for: at most Capacity values. A call of
\* the locked store acts on it at the moment it acquires m_mutex, a call of
\* the lock-free store, made by a thread that has the store to itself, at
\* the moment it starts
\* ---------------------------------------------------------------------
AbsPush(q, v) == IF Len(q) = Capacity THEN Append(Tail(q), v) ELSE Append(q, v)

AbsPop(q) == IF q = <<>> THEN q ELSE Tail(q)

AbsRet(q, op) ==
    CASE op \in {"top_pop", "top"} -> (IF q = <<>> THEN nullopt ELSE Some(Head(q)))
      [] op = "last" -> (IF q = <<>> THEN nullopt ELSE Some(q[Len(q)]))
      [] op = "size" -> Some(Len(q))
      [] OTHER -> nullopt

AbsOk(q, op) ==
    CASE op \in {"pop", "top_pop", "top", "last"} -> q # <<>>
      [] op = "empty" -> q = <<>>
      [] OTHER -> TRUE

AbsNext(q, op, v) ==
    CASE op \in PushOps -> AbsPush(q, v)
      [] op \in {"pop", "top_pop"} -> AbsPop(q)
      [] op = "reset" -> <<>>
      [] OTHER -> q

\* one thread and one buffer: the calls on the lock-free store are followed
\* on the bounded FIFO
Tracked == Sequential /\ kind = "fixed" /\ copy.st = "none"

AbsCall(g, op, v) == [g EXCEPT !.afifo = IF Tracked THEN AbsNext(@, op, v) ELSE @]

\* ------------------------------------------------------------ locals
InitLoc ==
    [op |-> "none", item |-> 0,
     current_tail |-> 0, next_tail |-> 0,
     current_head |-> 0, next_head |-> 0,
     value |-> 0, ret |-> nullopt, ok |-> FALSE,
     exp_ret |-> nullopt, exp_ok |-> FALSE,
     size0 |-> 0, sum0 |-> 0, sq0 |-> 0, top0 |-> nullopt,
     live0 |-> <<>>, self |-> "a", first |-> "a",
     head0 |-> 0, tail0 |-> 0,
     evicted |-> 0,         \* head CAS successes of pop_front_unsafe in this call
     tested |-> 0,          \* m_count as is_empty() of get_mean loaded it
     sum_ |-> 0,            \* m_sum as get_mean loaded it
     divisor |-> 0,         \* m_count as the division of get_mean loaded it
     divided |-> FALSE,     \* get_mean has divided
     count_ |-> 0,          \* count_ of get_variance
     mean_ |-> <<0, 1>>,    \* mean_ of get_variance
     pre |-> <<>>]          \* the store as a push or emplace call found it

\* the locals of a call that starts now; size0..top0 remember what the
\* caller could observe right before the call (kept when one thread uses
\* the store: with more threads the state before a call is not what the
\* call acts on)
CallLoc(op, item) ==
    IF Sequential
    THEN [InitLoc EXCEPT !.op = op, !.item = item,
                         !.size0 = Size, !.sum0 = Sum, !.sq0 = SumSquares, !.top0 = Top,
                         !.head0 = IF Tracked THEN fixed.m_head ELSE 0,
                         !.tail0 = IF Tracked THEN fixed.m_tail ELSE 0,
                         !.exp_ret = IF Tracked THEN AbsRet(ghost.afifo, op) ELSE nullopt,
                         !.exp_ok = IF Tracked THEN AbsOk(ghost.afifo, op) ELSE FALSE,
                         !.pre = IF op \in PushOps /\ copy.st = "none" THEN Store ELSE <<>>]
    ELSE [InitLoc EXCEPT !.op = op, !.item = item]

\* the locals after the call has returned: the result stays, the cursors go
DoneLoc(l, ret, ok) ==
    [l EXCEPT !.current_tail = 0, !.next_tail = 0, !.current_head = 0,
              !.next_head = 0, !.value = 0, !.ret = ret, !.ok = ok]

\* the same for the lock-free store: what a call of one thread among several
\* returned is recorded in the history alone
FixedDoneLoc(l, ret, ok) == IF Sequential THEN DoneLoc(l, ret, ok) ELSE InitLoc

\* the same for the locked store: of the calls of one thread among several,
\* those whose result is not the result of the bounded FIFO stay on record
DynDoneLoc(l, ret, ok) ==
    IF Sequential \/ ret # l.exp_ret \/ ok # l.exp_ok THEN DoneLoc(l, ret, ok)
                                                       ELSE InitLoc

\* ------------------------------------------------------------ history
\* run: the values pushed since the store was last seen empty, and the
\* results of the top_pop calls that followed them (one thread only)
VoidRun == [st |-> "void", pushed |-> <<>>, popped |-> <<>>]

\* moved: which of the two buffers ("a", "b") is in its moved-from state,
\* and how many push and pop calls had been made when it was moved from
NotMoved == [st |-> "none", npush0 |-> 0, npop0 |-> 0]

InitGhost(maxpush, maxpop, role) ==
    [npush |-> 0, npop |-> 0, npopok |-> 0,
     maxpush |-> maxpush, maxpop |-> maxpop,
     role |-> role,         \* what each thread calls: the workload
     casOrder |-> <<>>,     \* items, in the order their tail CAS succeeded
     out |-> <<>>,          \* values returned by top_pop, in return order
     consumers |-> {},      \* threads that called pop, top_pop or reset
     nonTopPop |-> FALSE,   \* pop or reset was called
     evictions |-> 0,       \* head CAS successes of pop_front_unsafe
     c7 |-> "pushing",      \* producers push, then one thread drains
     run |-> VoidRun,
     afifo |-> <<>>,        \* the bounded FIFO the dynamic store stands for
     made |-> "none",       \* the construction or assignment that returned last
     moved |-> NotMoved,    \* the buffer that was moved from last (one thread)
     since |-> IF Sequential THEN "new" ELSE "none"]
                            \* "new", "reset": only pushes and queries were made
                            \* since the construction, since a reset (one thread)

RunPush(run, l) ==
    IF l.size0 = 0 THEN [st |-> "push", pushed |-> <<l.item>>, popped |-> <<>>]
    ELSE IF run.st = "push" THEN [run EXCEPT !.pushed = Append(@, l.item)]
    ELSE VoidRun

RunTopPop(run, r) ==
    IF /\ run.st \in {"push", "pop"}
       /\ Len(run.popped) < Len(run.pushed)
       /\ Len(run.popped) < Capacity
    THEN [run EXCEPT !.st = "pop", !.popped = Append(@, r)]
    ELSE VoidRun

GhostPushCall(g, t) ==
    [g EXCEPT !.npush = @ + 1,
              !.c7 = IF @ = "pushing" /\ g.npush < Capacity THEN "pushing" ELSE "void"]

GhostPushReturn(g, l) ==
    [g EXCEPT !.run = IF Sequential THEN RunPush(@, l) ELSE VoidRun]

GhostTopPopCall(g, t) ==
    [g EXCEPT !.npop = @ + 1,
              !.consumers = @ \cup {t},
              !.c7 = CASE @ = "pushing" /\ OthersIdle(t) -> "draining"
                       [] @ \in {"draining", "done"} /\ g.consumers = {t} -> @
                       [] OTHER -> "void"]

GhostTopPopReturn(g, r) ==
    [g EXCEPT !.npopok = IF r = nullopt THEN @ ELSE @ + 1,
              !.out = IF r = nullopt \/ g.nonTopPop THEN @ ELSE Append(@, r[1]),
              !.c7 = IF r = nullopt /\ @ = "draining" THEN "done" ELSE @,
              !.run = IF Sequential THEN RunTopPop(@, r) ELSE VoidRun,
              !.since = "none"]

GhostPopCall(g, t) ==
    [g EXCEPT !.npop = @ + 1,
              !.consumers = @ \cup {t},
              !.nonTopPop = TRUE, !.out = <<>>, !.c7 = "void"]

GhostPopReturn(g, ok) ==
    [g EXCEPT !.npopok = IF ok THEN @ + 1 ELSE @, !.run = VoidRun, !.since = "none"]

GhostResetCall(g, t) ==
    [g EXCEPT !.consumers = @ \cup {t},
              !.nonTopPop = TRUE, !.out = <<>>, !.c7 = "void"]

\* pop and reset end the run
GhostResetReturn(g) == [g EXCEPT !.run = VoidRun, !.since = "none"]

\* reset() has returned
GhostCleared(g) ==
    [g EXCEPT !.run = VoidRun, !.since = IF Sequential THEN "reset" ELSE "none"]

\* top_pop of the locked store: the run alone is recorded
DynTopPopReturn(g, r) ==
    [g EXCEPT !.run = IF Sequential THEN RunTopPop(@, r) ELSE VoidRun, !.since = "none"]

\* a construction or assignment op has returned, its destination being self
GhostMade(g, op, self) ==
    [g EXCEPT !.made = op,
              !.moved = IF Sequential /\ op \in {"move_construct", "move_assign"}
                        THEN [st |-> IF self = "a" THEN "b" ELSE "a",
                              npush0 |-> g.npush, npop0 |-> g.npop]
                        ELSE NotMoved]

\* the calls are made on the other buffer from now on
GhostSelected(g) ==
    [g EXCEPT !.run = VoidRun, !.since = "none",
              !.moved = IF @.st = "b" THEN [st |-> "a", npush0 |-> g.npush, npop0 |-> g.npop]
                                      ELSE NotMoved]

\* the calls a thread makes
MutOpsOf(t) ==
    (IF ghost.npush < ghost.maxpush THEN {"push", "push_move", "emplace"} ELSE {})
        \cup (IF ghost.npop < ghost.maxpop THEN {"pop", "top_pop", "reset"} ELSE {})

MayPush(t) == ghost.role[t] \in {"any", "producer"} /\ ghost.npush < ghost.maxpush

MayPop(t) == ghost.role[t] \in {"any", "consumer"} /\ ghost.npop < ghost.maxpop

\* ---------------------------------------------------------------------
\* CircularBufferFixed: calls
\* ---------------------------------------------------------------------
\* sum(), mean(), variance(), standard_deviation(), minimum(), maximum(),
\* sorted(), reverse_sorted(), median()
StatOps == {"sum", "mean", "variance", "standard_deviation", "minimum", "maximum",
            "sorted", "reverse_sorted", "median"}

\* a producer calls push(const T&), every other thread any of the three
PushOpsOf(t) == IF ghost.role[t] = "producer" THEN {"push"} ELSE PushOps

\* push(const T&), push(T&&), emplace(args...): the value is the number of
\* the call, so that all pushed values differ
push(t) ==
    /\ kind = "fixed"
    /\ pc[t] = "idle"
    /\ MayPush(t)
    /\ \E op \in PushOpsOf(t) :
          loc' = [loc EXCEPT ![t] = CallLoc(op, ghost.npush + 1)]
    /\ pc' = [pc EXCEPT ![t] = "insert_load"]
    /\ ghost' = GhostPushCall(AbsCall(ghost, "push", ghost.npush + 1), t)
    /\ UNCHANGED <<kind, copy, fixed, dynamic>>

pop(t) ==
    /\ kind = "fixed"
    /\ pc[t] = "idle"
    /\ MayPop(t)
    /\ loc' = [loc EXCEPT ![t] = CallLoc("pop", 0)]
    /\ pc' = [pc EXCEPT ![t] = "pop_front_load"]
    /\ ghost' = GhostPopCall(AbsCall(ghost, "pop", 0), t)
    /\ UNCHANGED <<kind, copy, fixed, dynamic>>

top_pop(t) ==
    /\ kind = "fixed"
    /\ pc[t] = "idle"
    /\ MayPop(t)
    /\ loc' = [loc EXCEPT ![t] = CallLoc("top_pop", 0)]
    /\ pc' = [pc EXCEPT ![t] = "get_top_pop_load"]
    /\ ghost' = GhostTopPopCall(AbsCall(ghost, "top_pop", 0), t)
    /\ UNCHANGED <<kind, copy, fixed, dynamic>>

\* reset() is called by a thread that has the store to itself, or once by
\* the thread whose part is to call it while the others push and pop
reset(t) ==
    /\ kind = "fixed"
    /\ pc[t] = "idle"
    /\ \/ Sequential /\ MayPop(t)
       \/ ghost.role[t] = "reset" /\ t \notin ghost.consumers
    /\ loc' = [loc EXCEPT ![t] = CallLoc("reset", 0)]
    /\ pc' = [pc EXCEPT ![t] = "clear_check"]
    /\ ghost' = GhostResetCall([AbsCall(ghost, "reset", 0)
                                    EXCEPT !.npop = IF Sequential THEN @ + 1 ELSE @], t)
    /\ UNCHANGED <<kind, copy, fixed, dynamic>>

\* ---------------------------------------------------------------------
\* CircularBufferFixed::insert
\* ---------------------------------------------------------------------
\* current_tail = m_tail.load(); next_tail = increment(current_tail)
insert_load(t) ==
    /\ pc[t] = "insert_load"
    /\ loc' = [loc EXCEPT ![t].current_tail = fixed.m_tail,
                          ![t].next_tail = increment(fixed.m_tail)]
    /\ pc' = [pc EXCEPT ![t] = "insert_full"]
    /\ UNCHANGED <<kind, copy, fixed, dynamic, ghost>>

\* insert without the eviction of the oldest element
insert_full_never(t) ==
    /\ pc[t] = "insert_full"
    /\ pc' = [pc EXCEPT ![t] = "insert_cas"]
    /\ UNCHANGED <<kind, copy, fixed, dynamic, loc, ghost>>

\* if (is_full()) pop_front_unsafe();
insert_full(t) ==
    /\ pc[t] = "insert_full"
    /\ pc' = [pc EXCEPT ![t] = IF is_full THEN "pop_front_unsafe_load" ELSE "insert_cas"]
    /\ UNCHANGED <<kind, copy, fixed, dynamic, loc, ghost>>

\* while (!m_tail.compare_exchange_weak(current_tail, next_tail))
insert_cas(t) ==
    /\ pc[t] = "insert_cas"
    /\ \/ /\ fixed.m_tail = loc[t].current_tail
          /\ fixed' = [fixed EXCEPT !.m_tail = loc[t].next_tail]
          /\ pc' = [pc EXCEPT ![t] = "push_back_write"]
          /\ ghost' = [ghost EXCEPT !.casOrder = Append(@, loc[t].item)]
       \/ /\ pc' = [pc EXCEPT ![t] = "insert_load"]
          /\ UNCHANGED <<fixed, ghost>>
    /\ UNCHANGED <<kind, copy, dynamic, loc>>

\* ---------------------------------------------------------------------
\* CircularBufferFixed::pop_front_unsafe (called by insert)
\* ---------------------------------------------------------------------
pop_front_unsafe_load(t) ==
    /\ pc[t] = "pop_front_unsafe_load"
    /\ loc' = [loc EXCEPT ![t].current_head = fixed.m_head,
                          ![t].next_head = increment(fixed.m_head)]
    /\ pc' = [pc EXCEPT ![t] = "pop_front_unsafe_cas"]
    /\ UNCHANGED <<kind, copy, fixed, dynamic, ghost>>

pop_front_unsafe_cas(t) ==
    /\ pc[t] = "pop_front_unsafe_cas"
    /\ \/ /\ fixed.m_head = loc[t].current_head
          /\ fixed' = [fixed EXCEPT !.m_head = loc[t].next_head]
          /\ pc' = [pc EXCEPT ![t] = "pop_front_unsafe_sub"]
          /\ ghost' = [ghost EXCEPT !.evictions = @ + 1]
          /\ loc' = [loc EXCEPT ![t].evicted = @ + 1]
       \/ /\ pc' = [pc EXCEPT ![t] = "pop_front_unsafe_load"]
          /\ UNCHANGED <<fixed, ghost, loc>>
    /\ UNCHANGED <<kind, copy, dynamic>>

\* an eviction that leaves the aggregates alone
pop_front_unsafe_sub_skip(t) ==
    /\ pc[t] = "pop_front_unsafe_sub"
    /\ pc' = [pc EXCEPT ![t] = "pop_front_unsafe_dec"]
    /\ UNCHANGED <<kind, copy, fixed, dynamic, loc, ghost>>

\* atomic_sub(m_buffer.at(current_head))
pop_front_unsafe_sub(t) ==
    /\ pc[t] = "pop_front_unsafe_sub"
    /\ LET v == fixed.m_buffer[loc[t].current_head]
       IN fixed' = [fixed EXCEPT !.m_sum = @ - v, !.m_sum_squares = @ - v * v]
    /\ pc' = [pc EXCEPT ![t] = "pop_front_unsafe_dec"]
    /\ UNCHANGED <<kind, copy, dynamic, loc, ghost>>

\* an eviction that leaves m_count alone
pop_front_unsafe_dec_skip(t) ==
    /\ pc[t] = "pop_front_unsafe_dec"
    /\ pc' = [pc EXCEPT ![t] = "insert_cas"]
    /\ UNCHANGED <<kind, copy, fixed, dynamic, loc, ghost>>

\* m_count.fetch_sub(1); back in insert, at the loop condition
pop_front_unsafe_dec(t) ==
    /\ pc[t] = "pop_front_unsafe_dec"
    /\ fixed' = [fixed EXCEPT !.m_count = SizeSub(@, 1)]
    /\ pc' = [pc EXCEPT ![t] = "insert_cas"]
    /\ UNCHANGED <<kind, copy, dynamic, loc, ghost>>

\* ---------------------------------------------------------------------
\* CircularBufferFixed::push_back, emplace_back (after insert)
\* ---------------------------------------------------------------------
\* a write that also lands in the second buffer, as if the two shared
\* their storage
push_back_write_shared(t) ==
    /\ pc[t] = "push_back_write"
    /\ fixed' = [fixed EXCEPT !.m_buffer[loc[t].current_tail] = loc[t].item]
    /\ copy' = IF copy.st = "live"
               THEN [copy EXCEPT !.obj.m_buffer[loc[t].current_tail] = loc[t].item]
               ELSE copy
    /\ pc' = [pc EXCEPT ![t] = "push_back_add"]
    /\ UNCHANGED <<kind, dynamic, loc, ghost>>

\* m_buffer.at(current_tail) = item
push_back_write(t) ==
    /\ pc[t] = "push_back_write"
    /\ fixed' = [fixed EXCEPT !.m_buffer[loc[t].current_tail] = loc[t].item]
    /\ pc' = [pc EXCEPT ![t] = "push_back_add"]
    /\ UNCHANGED <<kind, copy, dynamic, loc, ghost>>

\* a variant of push_back_add in which emplace_back adds the slot after the
\* one it wrote
push_back_add_next(t) ==
    /\ pc[t] = "push_back_add"
    /\ LET v == IF loc[t].op = "push" THEN loc[t].item
                ELSE IF loc[t].op = "emplace" THEN fixed.m_buffer[loc[t].next_tail]
                ELSE fixed.m_buffer[loc[t].current_tail]
       IN fixed' = [fixed EXCEPT !.m_sum = @ + v, !.m_sum_squares = @ + v * v]
    /\ pc' = [pc EXCEPT ![t] = IF loc[t].op = "emplace" THEN "push_back_count"
                                                       ELSE "push_back_tail_store"]
    /\ UNCHANGED <<kind, copy, dynamic, loc, ghost>>

\* atomic_add(item) in push_back(const T&); push_back(T&&) and emplace_back
\* add m_buffer.at(current_tail), read back from the slot
push_back_add(t) ==
    /\ pc[t] = "push_back_add"
    /\ LET v == IF loc[t].op = "push" THEN loc[t].item
                ELSE fixed.m_buffer[loc[t].current_tail]
       IN fixed' = [fixed EXCEPT !.m_sum = @ + v, !.m_sum_squares = @ + v * v]
    /\ pc' = [pc EXCEPT ![t] = IF loc[t].op = "emplace" THEN "push_back_count"
                                                       ELSE "push_back_tail_store"]
    /\ UNCHANGED <<kind, copy, dynamic, loc, ghost>>

\* m_tail.store(next_tail): push_back only, emplace_back has no such line
push_back_tail_store(t) ==
    /\ pc[t] = "push_back_tail_store"
    /\ fixed' = [fixed EXCEPT !.m_tail = loc[t].next_tail]
    /\ pc' = [pc EXCEPT ![t] = "push_back_count"]
    /\ UNCHANGED <<kind, copy, dynamic, loc, ghost>>

\* m_count.fetch_add(1); return
push_back_count(t) ==
    /\ pc[t] = "push_back_count"
    /\ fixed' = [fixed EXCEPT !.m_count = SizeAdd(@, 1)]
    /\ pc' = [pc EXCEPT ![t] = "idle"]
    /\ loc' = [loc EXCEPT ![t] = FixedDoneLoc(@, nullopt, TRUE)]
    /\ ghost' = GhostPushReturn(ghost, loc[t])
    /\ UNCHANGED <<kind, copy, dynamic>>

\* push_back(const T& item) run from its first line to its last by a
\* thread that has the store f to itself: insert() with the eviction
\* pop_front_unsafe() of a full buffer, the write of the slot, atomic_add,
\* m_tail.store, m_count.fetch_add
fixed_push_back(f, item) ==
    LET current_tail == f.m_tail
        next_tail == (f.m_tail + 1) % f.N
        current_head == f.m_head
        front_ == f.m_buffer[current_head]
        g == IF f.m_count = f.N
             THEN [f EXCEPT !.m_head = (current_head + 1) % f.N,
                            !.m_sum = @ - front_,
                            !.m_sum_squares = @ - front_ * front_,
                            !.m_count = SizeSub(@, 1)]
             ELSE f
    IN [g EXCEPT !.m_tail = next_tail,
                 !.m_buffer[current_tail] = item,
                 !.m_sum = @ + item,
                 !.m_sum_squares = @ + item * item,
                 !.m_count = SizeAdd(@, 1)]

\* ---------------------------------------------------------------------
\* CircularBufferFixed::get_top_pop
\* ---------------------------------------------------------------------
get_top_pop_load(t) ==
    /\ pc[t] = "get_top_pop_load"
    /\ loc' = [loc EXCEPT ![t].current_head = fixed.m_head]
    /\ pc' = [pc EXCEPT ![t] = "get_top_pop_empty"]
    /\ UNCHANGED <<kind, copy, fixed, dynamic, ghost>>

\* get_top_pop that does not look at m_count
get_top_pop_empty_unchecked(t) ==
    /\ pc[t] = "get_top_pop_empty"
    /\ pc' = [pc EXCEPT ![t] = "get_top_pop_cas"]
    /\ loc' = [loc EXCEPT ![t].next_head = increment(loc[t].current_head)]
    /\ UNCHANGED <<kind, copy, fixed, dynamic, ghost>>

\* if (is_empty()) return std::nullopt; next_head = increment(current_head)
get_top_pop_empty(t) ==
    /\ pc[t] = "get_top_pop_empty"
    /\ IF is_empty
       THEN /\ pc' = [pc EXCEPT ![t] = "idle"]
            /\ loc' = [loc EXCEPT ![t] = FixedDoneLoc(@, nullopt, FALSE)]
            /\ ghost' = GhostTopPopReturn(ghost, nullopt)
       ELSE /\ pc' = [pc EXCEPT ![t] = "get_top_pop_cas"]
            /\ loc' = [loc EXCEPT ![t].next_head = increment(loc[t].current_head)]
            /\ UNCHANGED ghost
    /\ UNCHANGED <<kind, copy, fixed, dynamic>>

\* live0: the elements the buffer holds when the head is advanced
get_top_pop_cas(t) ==
    /\ pc[t] = "get_top_pop_cas"
    /\ \/ /\ fixed.m_head = loc[t].current_head
          /\ fixed' = [fixed EXCEPT !.m_head = loc[t].next_head]
          /\ pc' = [pc EXCEPT ![t] = "get_top_pop_read"]
          /\ loc' = [loc EXCEPT ![t].live0 = IF ghost.role[t] = "consumer"
                                             THEN FixedLive ELSE @]
       \/ /\ pc' = [pc EXCEPT ![t] = "get_top_pop_load"]
          /\ UNCHANGED <<fixed, loc>>
    /\ UNCHANGED <<kind, copy, dynamic, ghost>>

\* get_top_pop reading the slot after the one it claimed
get_top_pop_read_next(t) ==
    /\ pc[t] = "get_top_pop_read"
    /\ loc' = [loc EXCEPT ![t].value = fixed.m_buffer[loc[t].next_head]]
    /\ pc' = [pc EXCEPT ![t] = "get_top_pop_sub"]
    /\ UNCHANGED <<kind, copy, fixed, dynamic, ghost>>

\* T value = m_buffer.at(current_head)
get_top_pop_read(t) ==
    /\ pc[t] = "get_top_pop_read"
    /\ loc' = [loc EXCEPT ![t].value = fixed.m_buffer[loc[t].current_head]]
    /\ pc' = [pc EXCEPT ![t] = "get_top_pop_sub"]
    /\ UNCHANGED <<kind, copy, fixed, dynamic, ghost>>

\* atomic_sub(value)
get_top_pop_sub(t) ==
    /\ pc[t] = "get_top_pop_sub"
    /\ LET v == loc[t].value
       IN fixed' = [fixed EXCEPT !.m_sum = @ - v, !.m_sum_squares = @ - v * v]
    /\ pc' = [pc EXCEPT ![t] = "get_top_pop_dec"]
    /\ UNCHANGED <<kind, copy, dynamic, loc, ghost>>

\* m_count.fetch_sub(1); return value
get_top_pop_dec(t) ==
    /\ pc[t] = "get_top_pop_dec"
    /\ fixed' = [fixed EXCEPT !.m_count = SizeSub(@, 1)]
    /\ pc' = [pc EXCEPT ![t] = "idle"]
    /\ loc' = [loc EXCEPT ![t] = FixedDoneLoc(@, Some(loc[t].value), TRUE)]
    /\ ghost' = GhostTopPopReturn(ghost, Some(loc[t].value))
    /\ UNCHANGED <<kind, copy, dynamic>>

\* ---------------------------------------------------------------------
\* CircularBufferFixed::pop_front (pop, and the loop of clear)
\* ---------------------------------------------------------------------
pop_front_load(t) ==
    /\ pc[t] = "pop_front_load"
    /\ loc' = [loc EXCEPT ![t].current_head = fixed.m_head]
    /\ pc' = [pc EXCEPT ![t] = "pop_front_empty"]
    /\ UNCHANGED <<kind, copy, fixed, dynamic, ghost>>

\* if (is_empty()) return false; in clear: if (!pop_front()) break
pop_front_empty(t) ==
    /\ pc[t] = "pop_front_empty"
    /\ IF is_empty
       THEN /\ pc' = [pc EXCEPT ![t] = "idle"]
            /\ loc' = [loc EXCEPT ![t] = FixedDoneLoc(@, nullopt, FALSE)]
            /\ ghost' = IF loc[t].op = "reset" THEN GhostCleared(ghost)
                                               ELSE GhostPopReturn(ghost, FALSE)
       ELSE /\ pc' = [pc EXCEPT ![t] = "pop_front_cas"]
            /\ loc' = [loc EXCEPT ![t].next_head = increment(loc[t].current_head)]
            /\ UNCHANGED ghost
    /\ UNCHANGED <<kind, copy, fixed, dynamic>>

pop_front_cas(t) ==
    /\ pc[t] = "pop_front_cas"
    /\ \/ /\ fixed.m_head = loc[t].current_head
          /\ fixed' = [fixed EXCEPT !.m_head = loc[t].next_head]
          /\ pc' = [pc EXCEPT ![t] = "pop_front_sub"]
       \/ /\ pc' = [pc EXCEPT ![t] = "pop_front_load"]
          /\ UNCHANGED fixed
    /\ UNCHANGED <<kind, copy, dynamic, loc, ghost>>

\* atomic_sub(m_buffer.at(current_head))
pop_front_sub(t) ==
    /\ pc[t] = "pop_front_sub"
    /\ LET v == fixed.m_buffer[loc[t].current_head]
       IN fixed' = [fixed EXCEPT !.m_sum = @ - v, !.m_sum_squares = @ - v * v]
    /\ pc' = [pc EXCEPT ![t] = "pop_front_dec"]
    /\ UNCHANGED <<kind, copy, dynamic, loc, ghost>>

\* a clear that pops one element and returns
pop_front_dec_once(t) ==
    /\ pc[t] = "pop_front_dec"
    /\ fixed' = [fixed EXCEPT !.m_count = SizeSub(@, 1)]
    /\ pc' = [pc EXCEPT ![t] = "idle"]
    /\ loc' = [loc EXCEPT ![t] = FixedDoneLoc(@, nullopt, TRUE)]
    /\ ghost' = IF loc[t].op = "reset" THEN GhostCleared(ghost)
                                       ELSE GhostPopReturn(ghost, TRUE)
    /\ UNCHANGED <<kind, copy, dynamic>>

\* m_count.fetch_sub(1); return true (to the caller of pop, or to clear)
pop_front_dec(t) ==
    /\ pc[t] = "pop_front_dec"
    /\ fixed' = [fixed EXCEPT !.m_count = SizeSub(@, 1)]
    /\ IF loc[t].op = "reset"
       THEN /\ pc' = [pc EXCEPT ![t] = "clear_check"]
            /\ UNCHANGED <<loc, ghost>>
       ELSE /\ pc' = [pc EXCEPT ![t] = "idle"]
            /\ loc' = [loc EXCEPT ![t] = FixedDoneLoc(@, nullopt, TRUE)]
            /\ ghost' = GhostPopReturn(ghost, TRUE)
    /\ UNCHANGED <<kind, copy, dynamic>>

\* ---------------------------------------------------------------------
\* CircularBufferFixed::clear
\* ---------------------------------------------------------------------
\* while (!is_empty()) { if (!pop_front()) break; }
clear_check(t) ==
    /\ pc[t] = "clear_check"
    /\ IF is_empty
       THEN /\ pc' = [pc EXCEPT ![t] = "idle"]
            /\ loc' = [loc EXCEPT ![t] = FixedDoneLoc(@, nullopt, TRUE)]
            /\ ghost' = GhostCleared(ghost)
       ELSE /\ pc' = [pc EXCEPT ![t] = "pop_front_load"]
            /\ UNCHANGED <<loc, ghost>>
    /\ UNCHANGED <<kind, copy, fixed, dynamic>>

\* the steps of push, push(T&&) and emplace
PushStep(t) ==
    \/ push(t)
    \/ insert_load(t) \/ insert_full(t) \/ insert_cas(t)
    \/ pop_front_unsafe_load(t) \/ pop_front_unsafe_cas(t)
    \/ pop_front_unsafe_sub(t) \/ pop_front_unsafe_dec(t)
    \/ push_back_write(t) \/ push_back_add(t)
    \/ push_back_tail_store(t) \/ push_back_count(t)

\* the steps of top_pop
TopPopStep(t) ==
    \/ top_pop(t)
    \/ get_top_pop_load(t) \/ get_top_pop_empty(t) \/ get_top_pop_cas(t)
    \/ get_top_pop_read(t) \/ get_top_pop_sub(t) \/ get_top_pop_dec(t)

\* the steps of pop
PopStep(t) ==
    \/ pop(t)
    \/ pop_front_load(t) \/ pop_front_empty(t) \/ pop_front_cas(t)
    \/ pop_front_sub(t) \/ pop_front_dec(t)

\* the steps of reset, which runs pop_front in a loop
ResetStep(t) == reset(t) \/ clear_check(t)

FixedStep(t) == PushStep(t) \/ TopPopStep(t) \/ PopStep(t) \/ ResetStep(t)

NextFixed == \E t \in Threads : FixedStep(t)

\* the calls in which a thread has loaded a cursor and has not yet tried
\* its compare-and-swap on it: insert (with the eviction it may call)
\* between current_tail = m_tail.load() and m_tail.compare_exchange_weak,
\* pop_front_unsafe, get_top_pop and pop_front between
\* current_head = m_head.load() and m_head.compare_exchange_weak
TailLoaded(t) ==
    pc[t] \in {"insert_full", "pop_front_unsafe_load", "pop_front_unsafe_cas",
               "pop_front_unsafe_sub", "pop_front_unsafe_dec", "insert_cas"}

HeadLoaded(t) ==
    pc[t] \in {"pop_front_unsafe_cas", "get_top_pop_empty", "get_top_pop_cas",
               "pop_front_empty", "pop_front_cas"}

\* the step is a successful compare-and-swap of thread u on m_tail, on m_head
TailCasBy(u) == pc[u] = "insert_cas" /\ pc'[u] = "push_back_write"

HeadCasBy(u) ==
    \/ pc[u] = "pop_front_unsafe_cas" /\ pc'[u] = "pop_front_unsafe_sub"
    \/ pc[u] = "get_top_pop_cas" /\ pc'[u] = "get_top_pop_read"
    \/ pc[u] = "pop_front_cas" /\ pc'[u] = "pop_front_sub"

\* threads that push, pop and top_pop at the same time
NextFixedConc == \E t \in Threads : PushStep(t) \/ TopPopStep(t) \/ PopStep(t)

\* producers that push while a consumer calls top_pop
NextMPSC == \E t \in Threads : PushStep(t) \/ TopPopStep(t)

\* ---------------------------------------------------------------------
\* CircularBufferDynamic: calls
\* ---------------------------------------------------------------------
dyn_push(t) ==
    /\ kind = "dynamic"
    /\ pc[t] = "idle"
    /\ MayPush(t)
    /\ \E op \in PushOps :
          loc' = [loc EXCEPT ![t] = CallLoc(op, ghost.npush + 1)]
    /\ pc' = [pc EXCEPT ![t] = "dyn_lock"]
    /\ ghost' = [ghost EXCEPT !.npush = @ + 1]
    /\ UNCHANGED <<kind, copy, fixed, dynamic>>

dyn_pop(t) ==
    /\ kind = "dynamic"
    /\ pc[t] = "idle"
    /\ MayPop(t)
    /\ loc' = [loc EXCEPT ![t] = CallLoc("pop", 0)]
    /\ pc' = [pc EXCEPT ![t] = "dyn_lock"]
    /\ ghost' = [ghost EXCEPT !.npop = @ + 1]
    /\ UNCHANGED <<kind, copy, fixed, dynamic>>

dyn_top_pop(t) ==
    /\ kind = "dynamic"
    /\ pc[t] = "idle"
    /\ MayPop(t)
    /\ loc' = [loc EXCEPT ![t] = CallLoc("top_pop", 0)]
    /\ pc' = [pc EXCEPT ![t] = "dyn_lock"]
    /\ ghost' = [ghost EXCEPT !.npop = @ + 1]
    /\ UNCHANGED <<kind, copy, fixed, dynamic>>

dyn_reset(t) ==
    /\ kind = "dynamic"
    /\ pc[t] = "idle"
    /\ MayPop(t)
    /\ loc' = [loc EXCEPT ![t] = CallLoc("reset", 0)]
    /\ pc' = [pc EXCEPT ![t] = "dyn_lock"]
    /\ ghost' = [ghost EXCEPT !.npop = @ + 1]
    /\ UNCHANGED <<kind, copy, fixed, dynamic>>

ReadOps == {"top", "last", "size", "empty"}

\* top(), last(), size(), empty()
dyn_read(t) ==
    /\ kind = "dynamic"
    /\ pc[t] = "idle"
    /\ \E op \in ReadOps :
          loc' = [loc EXCEPT ![t] = CallLoc(op, 0)]
    /\ pc' = [pc EXCEPT ![t] = "dyn_lock"]
    /\ UNCHANGED <<kind, copy, fixed, dynamic, ghost>>

\* ---------------------------------------------------------------------
\* CircularBufferDynamic: std::unique_lock<std::mutex> lock(m_mutex), the
\* first statement of every protected member function
\* ---------------------------------------------------------------------
DynBody(op) ==
    CASE op \in PushOps -> "dyn_push_back_full"
      [] op = "pop" -> "dyn_pop_front_empty"
      [] op = "top_pop" -> "dyn_get_top_pop_empty"
      [] op = "reset" -> "dyn_clear"
      [] op = "top" -> "dyn_get_top"
      [] op = "last" -> "dyn_get_last"
      [] op = "size" -> "dyn_get_size"
      [] op \in StatOps -> "dyn_get_stat"
      [] OTHER -> "dyn_is_empty"

MutexFree == dynamic.m_mutex = 0

\* a lock that does not wait for the holder
dyn_lock_nowait(t) ==
    /\ pc[t] = "dyn_lock"
    /\ dynamic' = [dynamic EXCEPT !.m_mutex = t]
    /\ pc' = [pc EXCEPT ![t] = DynBody(loc[t].op)]
    /\ loc' = [loc EXCEPT ![t].exp_ret = AbsRet(ghost.afifo, loc[t].op),
                          ![t].exp_ok = AbsOk(ghost.afifo, loc[t].op)]
    /\ ghost' = [ghost EXCEPT !.afifo = AbsNext(@, loc[t].op, loc[t].item)]
    /\ UNCHANGED <<kind, copy, fixed>>

dyn_lock(t) ==
    /\ pc[t] = "dyn_lock"
    /\ MutexFree
    /\ dynamic' = [dynamic EXCEPT !.m_mutex = t]
    /\ pc' = [pc EXCEPT ![t] = DynBody(loc[t].op)]
    /\ loc' = [loc EXCEPT ![t].exp_ret = AbsRet(ghost.afifo, loc[t].op),
                          ![t].exp_ok = AbsOk(ghost.afifo, loc[t].op)]
    /\ ghost' = [ghost EXCEPT !.afifo = AbsNext(@, loc[t].op, loc[t].item)]
    /\ UNCHANGED <<kind, copy, fixed>>

\* the lock's destructor at the return of the function
Unlock(d) == [d EXCEPT !.m_mutex = 0]

\* ---------------------------------------------------------------------
\* CircularBufferDynamic::push_back, emplace_back, pop_front_unsafe
\* ---------------------------------------------------------------------
\* push_back(const T& item) of the locked store from lock to unlock
dyn_push_back(d, item) ==
    LET front_ == Head(d.m_buffer)
        g == IF Len(d.m_buffer) = d.m_max_size
             THEN [d EXCEPT !.m_sum = @ - front_,
                            !.m_sum_squares = @ - front_ * front_,
                            !.m_buffer = Tail(@)]
             ELSE d
    IN [g EXCEPT !.m_buffer = Append(@, item),
                 !.m_sum = @ + item,
                 !.m_sum_squares = @ + item * item]

\* push_back evicting one element too late
dyn_push_back_full_late(t) ==
    /\ pc[t] = "dyn_push_back_full"
    /\ pc' = [pc EXCEPT ![t] = IF Len(dynamic.m_buffer) = dynamic.m_max_size + 1
                               THEN "dyn_pop_front_unsafe"
                               ELSE "dyn_push_back_append"]
    /\ UNCHANGED <<kind, copy, fixed, dynamic, loc, ghost>>

\* if (m_buffer.size() == m_max_size) pop_front_unsafe();
dyn_push_back_full(t) ==
    /\ pc[t] = "dyn_push_back_full"
    /\ pc' = [pc EXCEPT ![t] = IF Len(dynamic.m_buffer) = dynamic.m_max_size
                               THEN "dyn_pop_front_unsafe"
                               ELSE "dyn_push_back_append"]
    /\ UNCHANGED <<kind, copy, fixed, dynamic, loc, ghost>>

\* m_sum -= front_; m_sum_squares -= pow(front_, 2); m_buffer.pop_front()
\* (called on a full deque only, which holds m_max_size >= 1 elements)
dyn_pop_front_unsafe(t) ==
    /\ pc[t] = "dyn_pop_front_unsafe"
    /\ dynamic.m_buffer # <<>>
    /\ LET front_ == Head(dynamic.m_buffer)
       IN dynamic' = [dynamic EXCEPT !.m_sum = @ - front_,
                                     !.m_sum_squares = @ - front_ * front_,
                                     !.m_buffer = Tail(@)]
    /\ pc' = [pc EXCEPT ![t] = "dyn_push_back_append"]
    /\ UNCHANGED <<kind, copy, fixed, loc, ghost>>

\* m_buffer.push_back(item); m_sum += item; m_sum_squares += pow(item, 2)
dyn_push_back_append(t) ==
    /\ pc[t] = "dyn_push_back_append"
    /\ LET item == loc[t].item
       IN dynamic' = Unlock([dynamic EXCEPT !.m_buffer = Append(@, item),
                                            !.m_sum = @ + item,
                                            !.m_sum_squares = @ + item * item])
    /\ pc' = [pc EXCEPT ![t] = "idle"]
    /\ loc' = [loc EXCEPT ![t] = DynDoneLoc(@, nullopt, TRUE)]
    /\ ghost' = GhostPushReturn(ghost, loc[t])
    /\ UNCHANGED <<kind, copy, fixed>>

\* ---------------------------------------------------------------------
\* CircularBufferDynamic::get_top_pop
\* ---------------------------------------------------------------------
\* if (m_buffer.empty()) return std::nullopt;
dyn_get_top_pop_empty(t) ==
    /\ pc[t] = "dyn_get_top_pop_empty"
    /\ IF dynamic.m_buffer = <<>>
       THEN /\ dynamic' = Unlock(dynamic)
            /\ pc' = [pc EXCEPT ![t] = "idle"]
            /\ loc' = [loc EXCEPT ![t] = DynDoneLoc(@, nullopt, FALSE)]
            /\ ghost' = DynTopPopReturn(ghost, nullopt)
       ELSE /\ pc' = [pc EXCEPT ![t] = "dyn_get_top_pop_front"]
            /\ UNCHANGED <<dynamic, loc, ghost>>
    /\ UNCHANGED <<kind, copy, fixed>>

\* T value = m_buffer.front(); m_buffer.pop_front(); m_sum -= value;
\* m_sum_squares -= pow(value, 2); return value
dyn_get_top_pop_front(t) ==
    /\ pc[t] = "dyn_get_top_pop_front"
    /\ dynamic.m_buffer # <<>>
    /\ LET value == Head(dynamic.m_buffer)
       IN /\ dynamic' = Unlock([dynamic EXCEPT !.m_buffer = Tail(@),
                                               !.m_sum = @ - value,
                                               !.m_sum_squares = @ - value * value])
          /\ loc' = [loc EXCEPT ![t] = DynDoneLoc(@, Some(value), TRUE)]
          /\ ghost' = DynTopPopReturn(ghost, Some(value))
    /\ pc' = [pc EXCEPT ![t] = "idle"]
    /\ UNCHANGED <<kind, copy, fixed>>

\* ---------------------------------------------------------------------
\* CircularBufferDynamic::pop_front
\* ---------------------------------------------------------------------
\* if (m_buffer.empty()) return false;
dyn_pop_front_empty(t) ==
    /\ pc[t] = "dyn_pop_front_empty"
    /\ IF dynamic.m_buffer = <<>>
       THEN /\ dynamic' = Unlock(dynamic)
            /\ pc' = [pc EXCEPT ![t] = "idle"]
            /\ loc' = [loc EXCEPT ![t] = DynDoneLoc(@, nullopt, FALSE)]
            /\ ghost' = GhostResetReturn(ghost)
       ELSE /\ pc' = [pc EXCEPT ![t] = "dyn_pop_front_front"]
            /\ UNCHANGED <<dynamic, loc, ghost>>
    /\ UNCHANGED <<kind, copy, fixed>>

\* m_sum -= front_; m_sum_squares -= pow(front_, 2); m_buffer.pop_front();
\* return true
dyn_pop_front_front(t) ==
    /\ pc[t] = "dyn_pop_front_front"
    /\ dynamic.m_buffer # <<>>
    /\ LET front_ == Head(dynamic.m_buffer)
       IN dynamic' = Unlock([dynamic EXCEPT !.m_sum = @ - front_,
                                            !.m_sum_squares = @ - front_ * front_,
                                            !.m_buffer = Tail(@)])
    /\ pc' = [pc EXCEPT ![t] = "idle"]
    /\ loc' = [loc EXCEPT ![t] = DynDoneLoc(@, nullopt, TRUE)]
    /\ ghost' = GhostResetReturn(ghost)
    /\ UNCHANGED <<kind, copy, fixed>>

\* ---------------------------------------------------------------------
\* CircularBufferDynamic::clear, get_top, get_last, get_size, is_empty
\* ---------------------------------------------------------------------
\* m_buffer.clear()
dyn_clear(t) ==
    /\ pc[t] = "dyn_clear"
    /\ dynamic' = Unlock([dynamic EXCEPT !.m_buffer = <<>>])
    /\ pc' = [pc EXCEPT ![t] = "idle"]
    /\ loc' = [loc EXCEPT ![t] = DynDoneLoc(@, nullopt, TRUE)]
    /\ ghost' = GhostCleared(ghost)
    /\ UNCHANGED <<kind, copy, fixed>>

dyn_get_top(t) ==
    /\ pc[t] = "dyn_get_top"
    /\ LET e == dynamic.m_buffer = <<>>
       IN loc' = [loc EXCEPT ![t] =
                     DynDoneLoc(@, IF e THEN nullopt ELSE Some(Head(dynamic.m_buffer)), ~e)]
    /\ dynamic' = Unlock(dynamic)
    /\ pc' = [pc EXCEPT ![t] = "idle"]
    /\ UNCHANGED <<kind, copy, fixed, ghost>>

dyn_get_last(t) ==
    /\ pc[t] = "dyn_get_last"
    /\ LET e == dynamic.m_buffer = <<>>
       IN loc' = [loc EXCEPT ![t] =
                     DynDoneLoc(@, IF e THEN nullopt
                                ELSE Some(dynamic.m_buffer[Len(dynamic.m_buffer)]), ~e)]
    /\ dynamic' = Unlock(dynamic)
    /\ pc' = [pc EXCEPT ![t] = "idle"]
    /\ UNCHANGED <<kind, copy, fixed, ghost>>

dyn_get_size(t) ==
    /\ pc[t] = "dyn_get_size"
    /\ loc' = [loc EXCEPT ![t] = DynDoneLoc(@, Some(Len(dynamic.m_buffer)), TRUE)]
    /\ dynamic' = Unlock(dynamic)
    /\ pc' = [pc EXCEPT ![t] = "idle"]
    /\ UNCHANGED <<kind, copy, fixed, ghost>>

dyn_is_empty(t) ==
    /\ pc[t] = "dyn_is_empty"
    /\ loc' = [loc EXCEPT ![t] = DynDoneLoc(@, nullopt, dynamic.m_buffer = <<>>)]
    /\ dynamic' = Unlock(dynamic)
    /\ pc' = [pc EXCEPT ![t] = "idle"]
    /\ UNCHANGED <<kind, copy, fixed, ghost>>

\* the steps of push and emplace, of pop and top_pop, of reset, and of
\* top, last, size and empty; all of them start with dyn_lock
DynPushStep(t) ==
    \/ dyn_push(t)
    \/ dyn_push_back_full(t) \/ dyn_pop_front_unsafe(t) \/ dyn_push_back_append(t)

DynPopStep(t) ==
    \/ dyn_pop(t) \/ dyn_top_pop(t)
    \/ dyn_get_top_pop_empty(t) \/ dyn_get_top_pop_front(t)
    \/ dyn_pop_front_empty(t) \/ dyn_pop_front_front(t)

DynResetStep(t) == dyn_reset(t) \/ dyn_clear(t)

DynReadStep(t) ==
    \/ dyn_read(t)
    \/ dyn_get_top(t) \/ dyn_get_last(t) \/ dyn_get_size(t) \/ dyn_is_empty(t)

DynStep(t) ==
    \/ dyn_lock(t)
    \/ DynPushStep(t) \/ DynPopStep(t) \/ DynResetStep(t) \/ DynReadStep(t)

NextDyn == \E t \in Threads : DynStep(t)

\* ---------------------------------------------------------------------
\* queries: top, last, size, empty of the fixed store and the statistics
\* of both stores
\* ---------------------------------------------------------------------
FixedRead(op) ==
    CASE op = "top" -> get_top
      [] op = "last" -> get_last
      [] op = "size" -> Some(get_size)
      [] OTHER -> nullopt

FixedReadOk(op) ==
    CASE op \in {"top", "last"} -> ~is_empty
      [] op = "empty" -> is_empty
      [] OTHER -> TRUE

FixedStat(op) ==
    CASE op = "sum" -> get_sum
      [] op = "mean" -> get_mean
      [] op = "variance" -> get_variance
      [] op = "standard_deviation" -> get_standard_deviation
      [] op = "minimum" -> get_min
      [] op = "maximum" -> get_max
      [] op = "sorted" -> get_sorted
      [] op = "reverse_sorted" -> get_reverse_sorted
      [] OTHER -> get_median

DynStat(op) ==
    CASE op = "sum" -> dyn_get_sum
      [] op = "mean" -> dyn_get_mean
      [] op = "variance" -> dyn_get_variance
      [] op = "standard_deviation" -> dyn_get_standard_deviation
      [] op = "minimum" -> dyn_get_min
      [] op = "maximum" -> dyn_get_max
      [] op = "sorted" -> dyn_get_sorted
      [] op = "reverse_sorted" -> dyn_get_reverse_sorted
      [] OTHER -> dyn_get_median

\* top(), last(), size(), empty() of the fixed store: loads, no stores
read(t) ==
    /\ kind = "fixed"
    /\ pc[t] = "idle"
    /\ \E op \in ReadOps :
          loc' = [loc EXCEPT ![t] =
                     FixedDoneLoc(CallLoc(op, 0), FixedRead(op), FixedReadOk(op))]
    /\ UNCHANGED <<kind, copy, fixed, dynamic, pc, ghost>>

\* a statistic of the fixed store: loads, no stores
stat(t) ==
    /\ kind = "fixed"
    /\ pc[t] = "idle"
    /\ \E op \in StatOps :
          loc' = [loc EXCEPT ![t] =
                     FixedDoneLoc(CallLoc(op, 0), FixedStat(op), FixedStat(op) # nullopt)]
    /\ UNCHANGED <<kind, copy, fixed, dynamic, pc, ghost>>

\* ---------------------------------------------------------------------
\* CircularBufferFixed::get_mean and get_variance, load by load, as a
\* thread runs them while other threads push and pop
\* ---------------------------------------------------------------------
MeanOps == {"mean", "variance"}

mean_variance(t) ==
    /\ kind = "fixed"
    /\ pc[t] = "idle"
    /\ ghost.role[t] = "reader"
    /\ \E op \in MeanOps :
          /\ loc' = [loc EXCEPT ![t] = [InitLoc EXCEPT !.op = op]]
          /\ pc' = [pc EXCEPT ![t] = IF op = "mean" THEN "get_mean_empty"
                                                   ELSE "get_variance_empty"]
    /\ UNCHANGED <<kind, copy, fixed, dynamic, ghost>>

\* get_mean: if (is_empty()) return std::nullopt; get_variance goes on
\* with mean_ = get_mean().value_or(0.)
get_mean_empty(t) ==
    /\ pc[t] = "get_mean_empty"
    /\ IF is_empty
       THEN IF loc[t].op = "mean"
            THEN /\ pc' = [pc EXCEPT ![t] = "idle"]
                 /\ loc' = [loc EXCEPT ![t] = DoneLoc(@, nullopt, FALSE)]
            ELSE /\ pc' = [pc EXCEPT ![t] = "get_variance_squares"]
                 /\ loc' = [loc EXCEPT ![t].mean_ = Double(0)]
       ELSE /\ pc' = [pc EXCEPT ![t] = "get_mean_div"]
            /\ loc' = [loc EXCEPT ![t].tested = fixed.m_count]
    /\ UNCHANGED <<kind, copy, fixed, dynamic, ghost>>

\* static_cast<double>(m_sum.load()) / m_count.load(): the two operands
\* are evaluated in either order
get_mean_sum(t) ==
    /\ pc[t] \in {"get_mean_div", "get_mean_sum_last"}
    /\ loc' = [loc EXCEPT ![t].sum_ = fixed.m_sum]
    /\ pc' = [pc EXCEPT ![t] = IF @ = "get_mean_div" THEN "get_mean_count_last"
                                                     ELSE "get_mean_return"]
    /\ UNCHANGED <<kind, copy, fixed, dynamic, ghost>>

get_mean_count(t) ==
    /\ pc[t] \in {"get_mean_div", "get_mean_count_last"}
    /\ loc' = [loc EXCEPT ![t].divisor = fixed.m_count]
    /\ pc' = [pc EXCEPT ![t] = IF @ = "get_mean_div" THEN "get_mean_sum_last"
                                                     ELSE "get_mean_return"]
    /\ UNCHANGED <<kind, copy, fixed, dynamic, ghost>>

\* the division; a quotient with divisor 0 is the infinity or NaN of the
\* double division
get_mean_return(t) ==
    /\ pc[t] = "get_mean_return"
    /\ LET r == DoubleDiv(Double(loc[t].sum_), Double(loc[t].divisor))
       IN IF loc[t].op = "mean"
          THEN /\ pc' = [pc EXCEPT ![t] = "idle"]
               /\ loc' = [loc EXCEPT ![t] = [DoneLoc(@, Some(r), TRUE) EXCEPT !.divided = TRUE]]
          ELSE /\ pc' = [pc EXCEPT ![t] = "get_variance_squares"]
               /\ loc' = [loc EXCEPT ![t].mean_ = r, ![t].divided = TRUE]
    /\ UNCHANGED <<kind, copy, fixed, dynamic, ghost>>

\* get_variance: if (is_empty()) return std::nullopt
get_variance_empty(t) ==
    /\ pc[t] = "get_variance_empty"
    /\ IF is_empty
       THEN /\ pc' = [pc EXCEPT ![t] = "idle"]
            /\ loc' = [loc EXCEPT ![t] = DoneLoc(@, nullopt, FALSE)]
       ELSE /\ pc' = [pc EXCEPT ![t] = "get_variance_count"]
            /\ UNCHANGED loc
    /\ UNCHANGED <<kind, copy, fixed, dynamic, ghost>>

\* const size_t count_ = m_count.load(); if (count_ < 2) return std::nullopt
get_variance_count(t) ==
    /\ pc[t] = "get_variance_count"
    /\ IF fixed.m_count < 2
       THEN /\ pc' = [pc EXCEPT ![t] = "idle"]
            /\ loc' = [loc EXCEPT ![t] = DoneLoc([@ EXCEPT !.count_ = fixed.m_count],
                                                 nullopt, FALSE)]
       ELSE /\ pc' = [pc EXCEPT ![t] = "get_mean_empty"]
            /\ loc' = [loc EXCEPT ![t].count_ = fixed.m_count]
    /\ UNCHANGED <<kind, copy, fixed, dynamic, ghost>>

\* (m_sum_squares.load() / count_ - mean_^2) * (count_ / (count_ - 1))
get_variance_squares(t) ==
    /\ pc[t] = "get_variance_squares"
    /\ LET count_ == loc[t].count_
           mean_ == loc[t].mean_
           r == DoubleMul(DoubleSub(DoubleDiv(Double(fixed.m_sum_squares), Double(count_)),
                                    DoubleMul(mean_, mean_)),
                          DoubleDiv(Double(count_), Double(count_ - 1)))
       IN loc' = [loc EXCEPT ![t] = DoneLoc(@, Some(r), TRUE)]
    /\ pc' = [pc EXCEPT ![t] = "idle"]
    /\ UNCHANGED <<kind, copy, fixed, dynamic, ghost>>

MeanStep(t) ==
    \/ mean_variance(t)
    \/ get_mean_empty(t) \/ get_mean_sum(t) \/ get_mean_count(t) \/ get_mean_return(t)
    \/ get_variance_empty(t) \/ get_variance_count(t) \/ get_variance_squares(t)

\* a thread that calls mean() and variance() while another pushes and pops
NextMean == \E t \in Threads : MeanStep(t) \/ PushStep(t) \/ TopPopStep(t) \/ PopStep(t)

\* a statistic of the locked store: sum, mean, variance and
\* standard_deviation lock m_mutex and call the getter, the others call a
\* getter that locks m_mutex
\* the queries threads make at the same time as other calls: one that
\* locks in the public function and one that locks in the getter
StatOpsOf(t) == IF Sequential THEN StatOps ELSE {"variance", "minimum"}

dyn_stat(t) ==
    /\ kind = "dynamic"
    /\ pc[t] = "idle"
    /\ \E op \in StatOpsOf(t) :
          loc' = [loc EXCEPT ![t] = CallLoc(op, 0)]
    /\ pc' = [pc EXCEPT ![t] = "dyn_lock"]
    /\ UNCHANGED <<kind, copy, fixed, dynamic, ghost>>

dyn_get_stat(t) ==
    /\ pc[t] = "dyn_get_stat"
    /\ LET r == DynStat(loc[t].op)
       IN loc' = [loc EXCEPT ![t] = IF Sequential THEN DoneLoc(@, r, r # nullopt)
                                                  ELSE InitLoc]
    /\ dynamic' = Unlock(dynamic)
    /\ pc' = [pc EXCEPT ![t] = "idle"]
    /\ UNCHANGED <<kind, copy, fixed, ghost>>

\* for (auto it = begin(); it != end(); ++it) and the same with rbegin(),
\* rend(): the iterators are those of m_buffer, the std::array of the fixed
\* store and the std::deque of the locked one (no lock is taken)
IterOps == {"begin_end", "rbegin_rend"}

Visited(op) ==
    LET m_buffer == IF kind = "fixed" THEN FixedArray ELSE dynamic.m_buffer
    IN IF op = "begin_end" THEN m_buffer ELSE Reverse(m_buffer)

iterate(t) ==
    /\ pc[t] = "idle"
    /\ Sequential
    /\ \E op \in IterOps :
          loc' = [loc EXCEPT ![t] = DoneLoc(CallLoc(op, 0), Some(Visited(op)), TRUE)]
    /\ UNCHANGED <<kind, copy, fixed, dynamic, pc, ghost>>

QueryStep(t) == read(t) \/ stat(t) \/ dyn_stat(t) \/ dyn_get_stat(t) \/ iterate(t)

NextQuery == \E t \in Threads : FixedStep(t) \/ DynStep(t) \/ QueryStep(t)

\* ---------------------------------------------------------------------
\* a second buffer: copy and move construction, assignment
\* ---------------------------------------------------------------------
CopyOps == {"copy_construct", "move_construct", "copy_assign", "move_assign"}

\* the two buffers: "a" is the store the calls are made on (fixed or
\* dynamic), "b" the second one (copy.obj)
Other(o) == IF o = "a" THEN "b" ELSE "a"

DynObj(o) == IF o = "a" THEN dynamic ELSE copy.obj

Mutex(o) == DynObj(o).m_mutex

\* the source of a construction or assignment whose destination is self
SrcLive(self) == IF kind = "fixed" THEN FixedLive ELSE DynObj(Other(self)).m_buffer

SrcSum(self) == IF kind = "fixed" THEN fixed.m_sum ELSE DynObj(Other(self)).m_sum

\* the locals of a construction or assignment; what the source holds when
\* it starts is remembered (one thread)
CopyCallLoc(op, self) ==
    IF Sequential
    THEN [InitLoc EXCEPT !.op = op, !.self = self, !.first = self,
                         !.size0 = Len(SrcLive(self)), !.sum0 = SrcSum(self),
                         !.live0 = SrcLive(self)]
    ELSE [InitLoc EXCEPT !.op = op, !.self = self, !.first = self]

\* a copy that starts at index 0 whatever the source's cursors are
FixedCopyOf_rewound(other) ==
    [N |-> other.N,
     m_head |-> 0, m_tail |-> other.m_count % other.N, m_count |-> other.m_count,
     m_buffer |-> other.m_buffer,
     m_sum |-> other.m_sum, m_sum_squares |-> other.m_sum_squares]

\* CircularBufferFixed(const CircularBufferFixed& other) and
\* operator=(const CircularBufferFixed& other): m_head, m_tail and m_count
\* are loaded from other, m_buffer is copied, m_sum and m_sum_squares are
\* loaded from other
FixedCopyOf(other) ==
    [N |-> other.N,
     m_head |-> other.m_head, m_tail |-> other.m_tail, m_count |-> other.m_count,
     m_buffer |-> other.m_buffer,
     m_sum |-> other.m_sum, m_sum_squares |-> other.m_sum_squares]

\* CircularBufferFixed b(a), CircularBufferFixed b(std::move(a)): the move
\* constructor is defaulted and, the members being std::atomic, deleted, so
\* that the copy constructor is the one that runs
copy_construct(t) ==
    /\ kind = "fixed"
    /\ pc[t] = "idle"
    /\ Sequential
    /\ copy.ncopy < MaxCopy
    /\ \E op \in {"copy_construct", "move_construct"} :
          loc' = [loc EXCEPT ![t] = DoneLoc(CopyCallLoc(op, "b"), nullopt, TRUE)]
    /\ copy' = [copy EXCEPT !.st = "live", !.obj = FixedCopyOf(fixed), !.ncopy = @ + 1]
    /\ UNCHANGED <<kind, fixed, dynamic, pc, ghost>>

\* b = a, b being the second buffer (this != &other)
copy_assign(t) ==
    /\ kind = "fixed"
    /\ pc[t] = "idle"
    /\ Sequential
    /\ copy.st = "live"
    /\ copy.ncopy < MaxCopy
    /\ loc' = [loc EXCEPT ![t] = DoneLoc(CopyCallLoc("copy_assign", "b"), nullopt, TRUE)]
    /\ copy' = [copy EXCEPT !.obj = FixedCopyOf(fixed), !.ncopy = @ + 1]
    /\ UNCHANGED <<kind, fixed, dynamic, pc, ghost>>

\* from now on the calls are made on the other of the two buffers
select(t) ==
    /\ pc[t] = "idle"
    /\ Sequential
    /\ copy.st = "live"
    /\ copy.nselect < MaxSelect
    /\ IF kind = "fixed"
       THEN fixed' = copy.obj /\ copy' = [copy EXCEPT !.obj = fixed, !.nselect = @ + 1]
                              /\ UNCHANGED dynamic
       ELSE dynamic' = copy.obj /\ copy' = [copy EXCEPT !.obj = dynamic, !.nselect = @ + 1]
                                /\ UNCHANGED fixed
    /\ loc' = [loc EXCEPT ![t] = InitLoc]
    /\ ghost' = GhostSelected(ghost)
    /\ UNCHANGED <<kind, pc>>

\* ---------------------------------------------------------------------
\* CircularBufferDynamic: copy and move construction, copy and move
\* assignment; std::scoped_lock lock(m_mutex, other.m_mutex)
\* ---------------------------------------------------------------------
\* no other thread is inside a construction or an assignment
NoOtherCopier(t) ==
    \A u \in Threads \ {t} : pc[u] \in {"idle", "off"} \/ loc[u].op \notin CopyOps

\* CircularBufferDynamic b(a), CircularBufferDynamic b(std::move(a)): the
\* second buffer is a new object
ConstructOpsOf(t) ==
    IF ghost.role[t] = "copier" THEN {"copy_construct"}
                                ELSE {"copy_construct", "move_construct"}

dyn_copy_construct(t) ==
    /\ kind = "dynamic"
    /\ pc[t] = "idle"
    /\ ghost.role[t] \in {"any", "copier"}
    /\ copy.ncopy < MaxCopy
    /\ NoOtherCopier(t)
    /\ \E op \in ConstructOpsOf(t) :
          loc' = [loc EXCEPT ![t] = CopyCallLoc(op, "b")]
    /\ pc' = [pc EXCEPT ![t] = "dyn_copy_init"]
    /\ copy' = [copy EXCEPT !.st = "none", !.ncopy = @ + 1]
    /\ UNCHANGED <<kind, fixed, dynamic, ghost>>

\* what an unlocked read of other.m_buffer yields: the deque, or, while
\* another thread is changing it under m_mutex (a data race), any
\* contiguous part of it
RacyRead(t) ==
    LET q == dynamic.m_buffer
    IN IF dynamic.m_mutex \in {0, t} THEN {q}
       ELSE {SubSeq(q, i, j) : i \in 1 .. Len(q) + 1, j \in 0 .. Len(q)}

\* the member initialisers m_max_size(other.m_max_size),
\* m_buffer(other.m_buffer) or m_buffer(std::move(other.m_buffer)): they
\* run before the constructor's body, that is before the lock is taken;
\* m_sum and m_sum_squares are not initialised here (0 stands for their
\* indeterminate value, which is not read); a moved-from deque is empty
dyn_copy_init(t) ==
    /\ pc[t] = "dyn_copy_init"
    /\ \E q \in RacyRead(t) :
          copy' = [copy EXCEPT !.st = "building",
                               !.obj = [m_max_size |-> dynamic.m_max_size,
                                        m_buffer |-> q,
                                        m_sum |-> 0, m_sum_squares |-> 0,
                                        m_mutex |-> 0]]
    /\ dynamic' = IF loc[t].op = "move_construct"
                  THEN [dynamic EXCEPT !.m_buffer = <<>>] ELSE dynamic
    /\ pc' = [pc EXCEPT ![t] = "scoped_lock_first"]
    /\ UNCHANGED <<kind, fixed, loc, ghost>>

\* a = b or b = a, copy or move assignment, with this != &other
dyn_assign(t) ==
    /\ kind = "dynamic"
    /\ pc[t] = "idle"
    /\ ghost.role[t] \in {"any", "copier"}
    /\ copy.st = "live"
    /\ copy.ncopy < MaxCopy
    /\ \E op \in {"copy_assign", "move_assign"}, self \in {"a", "b"} :
          loc' = [loc EXCEPT ![t] = CopyCallLoc(op, self)]
    /\ pc' = [pc EXCEPT ![t] = "scoped_lock_first"]
    /\ copy' = [copy EXCEPT !.ncopy = @ + 1]
    /\ UNCHANGED <<kind, fixed, dynamic, ghost>>

\* m_mutex of buffer o becomes v
SetMutex(o, v) ==
    IF o = "a" THEN dynamic' = [dynamic EXCEPT !.m_mutex = v] /\ UNCHANGED copy
               ELSE copy' = [copy EXCEPT !.obj.m_mutex = v] /\ UNCHANGED dynamic

CopyBody(op) == IF op \in {"copy_construct", "move_construct"} THEN "dyn_copy_sums"
                                                                ELSE "dyn_assign_members"

\* std::lock on two mutexes: lock one of them, waiting for it
scoped_lock_first(t) ==
    /\ pc[t] = "scoped_lock_first"
    /\ Mutex(loc[t].first) = 0
    /\ SetMutex(loc[t].first, t)
    /\ pc' = [pc EXCEPT ![t] = "scoped_lock_try"]
    /\ UNCHANGED <<kind, fixed, loc, ghost>>

\* std::lock that waits for the second mutex while it holds the first
scoped_lock_try_wait(t) ==
    /\ pc[t] = "scoped_lock_try"
    /\ Mutex(Other(loc[t].first)) = 0
    /\ SetMutex(Other(loc[t].first), t)
    /\ pc' = [pc EXCEPT ![t] = CopyBody(loc[t].op)]
    /\ UNCHANGED <<kind, fixed, loc, ghost>>

\* std::lock: try_lock the other one; if that fails unlock the first and
\* start again, with either of the two (which one is up to the library)
scoped_lock_try(t) ==
    /\ pc[t] = "scoped_lock_try"
    /\ IF Mutex(Other(loc[t].first)) = 0
       THEN /\ SetMutex(Other(loc[t].first), t)
            /\ pc' = [pc EXCEPT ![t] = CopyBody(loc[t].op)]
            /\ UNCHANGED loc
       ELSE /\ SetMutex(loc[t].first, 0)
            /\ pc' = [pc EXCEPT ![t] = "scoped_lock_first"]
            /\ \E o \in {"a", "b"} : loc' = [loc EXCEPT ![t].first = o]
    /\ UNCHANGED <<kind, fixed, ghost>>

\* the locals after a construction or assignment has returned
CopyDoneLoc(l) == IF Sequential THEN DoneLoc(l, nullopt, TRUE) ELSE InitLoc

\* the constructor's body: m_sum = other.m_sum; m_sum_squares =
\* other.m_sum_squares; the lock's destructor unlocks both mutexes
dyn_copy_sums(t) ==
    /\ pc[t] = "dyn_copy_sums"
    /\ copy' = [copy EXCEPT !.st = "live",
                            !.obj.m_sum = dynamic.m_sum,
                            !.obj.m_sum_squares = dynamic.m_sum_squares,
                            !.obj.m_mutex = 0]
    /\ dynamic' = Unlock(dynamic)
    /\ pc' = [pc EXCEPT ![t] = "idle"]
    /\ loc' = [loc EXCEPT ![t] = CopyDoneLoc(@)]
    /\ ghost' = GhostMade(ghost, loc[t].op, loc[t].self)
    /\ UNCHANGED <<kind, fixed>>

\* what operator= leaves in *this and in other (unlocked): m_max_size,
\* m_buffer, m_sum and m_sum_squares are assigned from other as the source
\* text has it (m_max_size is declared const and m_sum is no std::atomic;
\* the operators are members of a class template and are compiled only
\* where they are used); a moved-from deque is empty
AssignedFrom(other) == Unlock(other)

AssignSource(other, op) ==
    Unlock(IF op = "move_assign" THEN [other EXCEPT !.m_buffer = <<>>] ELSE other)

dyn_assign_members(t) ==
    /\ pc[t] = "dyn_assign_members"
    /\ LET other == DynObj(Other(loc[t].self))
       IN IF loc[t].self = "a"
          THEN /\ dynamic' = AssignedFrom(other)
               /\ copy' = [copy EXCEPT !.obj = AssignSource(other, loc[t].op)]
          ELSE /\ copy' = [copy EXCEPT !.obj = AssignedFrom(other)]
               /\ dynamic' = AssignSource(other, loc[t].op)
    /\ pc' = [pc EXCEPT ![t] = "idle"]
    /\ loc' = [loc EXCEPT ![t] = CopyDoneLoc(@)]
    /\ ghost' = GhostMade(ghost, loc[t].op, loc[t].self)
    /\ UNCHANGED <<kind, fixed>>

\* the steps of constructions and assignments
FixedCopyStep(t) == copy_construct(t) \/ copy_assign(t)

DynConstructStep(t) == dyn_copy_construct(t) \/ dyn_copy_init(t) \/ dyn_copy_sums(t)

ScopedLockStep(t) == scoped_lock_first(t) \/ scoped_lock_try(t)

DynAssignStep(t) == dyn_assign(t) \/ dyn_assign_members(t)

\* one thread, either store and a second buffer
NextCopy ==
    \E t \in Threads :
        \/ FixedStep(t)
        \/ dyn_lock(t) \/ DynPushStep(t) \/ DynPopStep(t) \/ DynResetStep(t)
        \/ FixedCopyStep(t) \/ DynConstructStep(t) \/ ScopedLockStep(t) \/ DynAssignStep(t)
        \/ select(t)

\* a thread that copy-constructs buffers from the locked store while the
\* other threads push to it and pop from it
NextSnapshot ==
    \E t \in Threads :
        \/ dyn_lock(t) \/ DynPushStep(t) \/ DynPopStep(t)
        \/ DynConstructStep(t) \/ ScopedLockStep(t)

\* what one thread does when two locked stores are assigned to each other
\* while they are pushed to and queried
AssignStepOf(t) ==
    \/ dyn_lock(t) \/ DynPushStep(t)
    \/ dyn_stat(t) \/ dyn_get_stat(t)
    \/ DynAssignStep(t) \/ ScopedLockStep(t)

NextAssign == \E t \in Threads : AssignStepOf(t)

\* ---------------------------------------------------------------------
\* CircularBuffer<T, N>: the class of CircularBuffer.hpp, a ring over a
\* std::array<T, N> (N > 0) or over a std::vector<T> of m_max_size elements
\* (N == 0), used by one thread: a call runs without interruption, its
\* compare-and-swap loops are left after one round. f holds the members;
\* N = 0 stands for the vector variant.
\* ---------------------------------------------------------------------
cb_increment(f, value) ==
    IF f.N = 0 THEN (value + 1) % (IF f.m_max_size = 0 THEN 1 ELSE f.m_max_size)
               ELSE (value + 1) % f.N

cb_is_empty(f) == f.m_count = 0

cb_full(f) == IF f.N = 0 THEN f.m_count = f.m_max_size ELSE f.m_count = f.N

cb_atomic_add(f, value) ==
    [f EXCEPT !.m_sum = @ + value, !.m_sum_squares = @ + value * value]

cb_atomic_sub(f, value) ==
    [f EXCEPT !.m_sum = @ - value, !.m_sum_squares = @ - value * value]

\* pop_front_unsafe, and pop_front and get_top_pop after read_insert has
\* returned the head: the head moves on, the element leaves the sums,
\* m_count.fetch_sub(1)
cb_pop_front_unsafe(f) ==
    LET current_head == f.m_head
    IN [cb_atomic_sub(f, f.m_buffer[current_head])
           EXCEPT !.m_head = cb_increment(f, current_head),
                  !.m_count = SizeSub(@, 1)]

\* insert: if (full()) pop_front_unsafe(); the tail moves on
cb_insert(f) ==
    LET g == IF cb_full(f) THEN cb_pop_front_unsafe(f) ELSE f
    IN [g EXCEPT !.m_tail = cb_increment(g, g.m_tail)]

\* push_back, emplace_back: m_buffer.at(insert()) = item; atomic_add(item);
\* m_count.fetch_add(1)
cb_push_back(f, item) ==
    LET current_tail == (IF cb_full(f) THEN cb_pop_front_unsafe(f) ELSE f).m_tail
    IN [cb_atomic_add(cb_insert(f), item)
           EXCEPT !.m_buffer[current_tail] = item,
                  !.m_count = SizeAdd(@, 1)]

cb_pop_front(f) == IF cb_is_empty(f) THEN f ELSE cb_pop_front_unsafe(f)

\* while (!is_empty()) { if (!pop_front()) break; }
RECURSIVE cb_clear(_)
cb_clear(f) == IF cb_is_empty(f) THEN f ELSE cb_clear(cb_pop_front(f))

cb_get_top(f) == IF cb_is_empty(f) THEN nullopt ELSE Some(f.m_buffer[f.m_head])

cb_get_last(f) ==
    IF cb_is_empty(f) THEN nullopt
    ELSE LET last == (IF f.N = 0 THEN f.m_max_size ELSE f.N) - 1
             _tail_position == IF f.m_tail = 0 THEN last ELSE f.m_tail - 1
         IN Some(f.m_buffer[_tail_position])

\* m_buffer.begin() .. m_buffer.end() and m_buffer.begin() ..
\* m_buffer.begin() + m_count
cb_array(f) ==
    [i \in 1 .. (IF f.N = 0 THEN f.m_max_size ELSE f.N) |-> f.m_buffer[i - 1]]

cb_prefix(f) == SubSeq(cb_array(f), 1, f.m_count)

cb_rest(f) == SubSeq(cb_array(f), f.m_count + 1, Len(cb_array(f)))

cb_get_sum(f) == IF cb_is_empty(f) THEN nullopt ELSE Some(f.m_sum)

cb_get_mean(f) ==
    IF cb_is_empty(f) THEN nullopt
    ELSE Some(DoubleDiv(Double(f.m_sum), Double(f.m_count)))

cb_get_variance(f) ==
    IF cb_is_empty(f) THEN nullopt
    ELSE LET count_ == f.m_count
         IN IF count_ < 2 THEN nullopt
            ELSE LET mean_ == value_or(cb_get_mean(f), Double(0))
                 IN Some(DoubleMul(
                        DoubleSub(DoubleDiv(Double(f.m_sum_squares), Double(count_)),
                                  DoubleMul(mean_, mean_)),
                        DoubleDiv(Double(count_), Double(count_ - 1))))

cb_get_standard_deviation(f) ==
    IF cb_is_empty(f) THEN nullopt
    ELSE Some(Sqrt(value_or(cb_get_variance(f), Double(0))))

cb_get_min(f) == IF cb_is_empty(f) THEN nullopt ELSE Some(min_element(cb_prefix(f)))

cb_get_max(f) == IF cb_is_empty(f) THEN nullopt ELSE Some(max_element(cb_prefix(f)))

cb_get_sorted(f) ==
    IF cb_is_empty(f) THEN nullopt ELSE Some(sort(cb_prefix(f)) \o cb_rest(f))

cb_get_reverse_sorted(f) ==
    IF cb_is_empty(f) THEN nullopt ELSE Some(sort_greater(cb_prefix(f)) \o cb_rest(f))

\* std::nth_element over sorted_buffer.begin() .. sorted_buffer.begin() +
\* count_
cb_get_median(f) ==
    IF cb_is_empty(f) THEN nullopt
    ELSE LET sorted_buffer == cb_array(f)
             count_ == f.m_count
             half_count_ == count_ \div 2
             range == SubSeq(sorted_buffer, 1, count_)
         IN IF count_ = 1 THEN Some(Double(sorted_buffer[1]))
            ELSE IF count_ % 2 = 0
                 THEN LET median_1 == Double(nth_element(range, half_count_))
                          median_2 == Double(nth_element(range, half_count_ - 1))
                      IN Some(DoubleDiv(DoubleAdd(median_1, median_2), Double(2)))
                 ELSE Some(Double(nth_element(range, half_count_)))

\* the members after the call op(item)
cb_after(f, op, item) ==
    CASE op \in PushOps -> cb_push_back(f, item)
      [] op \in {"pop", "top_pop"} -> cb_pop_front(f)
      [] op = "reset" -> cb_clear(f)
      [] OTHER -> f

\* what the call returns: the value, and whether there is one (the bool of
\* pop and of empty)
cb_ret(f, op) ==
    CASE op = "top_pop" -> cb_get_top(f)
      [] op = "top" -> cb_get_top(f)
      [] op = "last" -> cb_get_last(f)
      [] op = "size" -> Some(f.m_count)
      [] op = "sum" -> cb_get_sum(f)
      [] op = "mean" -> cb_get_mean(f)
      [] op = "variance" -> cb_get_variance(f)
      [] op = "standard_deviation" -> cb_get_standard_deviation(f)
      [] op = "minimum" -> cb_get_min(f)
      [] op = "maximum" -> cb_get_max(f)
      [] op = "sorted" -> cb_get_sorted(f)
      [] op = "reverse_sorted" -> cb_get_reverse_sorted(f)
      [] op = "median" -> cb_get_median(f)
      [] OTHER -> nullopt

cb_ok(f, op) ==
    CASE op \in PushOps \cup {"reset", "size"} -> TRUE
      [] op = "empty" -> cb_is_empty(f)
      [] op \in {"pop", "top_pop", "top", "last"} -> ~cb_is_empty(f)
      [] OTHER -> cb_ret(f, op) # nullopt

\* the call that has just returned on the store is made on the
\* CircularBuffer object too, and the two results are compared: diff keeps
\* the first call on which they differ
facade_call(t) ==
    /\ pc[t] = "idle"
    /\ Sequential
    /\ copy.st = "facade"
    /\ loc[t].op # "none"
    /\ LET f == copy.obj
           op == loc[t].op
           ret == cb_ret(f, op)
           ok == cb_ok(f, op)
       IN copy' = [copy EXCEPT
                      !.obj = cb_after(f, op, loc[t].item),
                      !.diff = IF @ = <<>> /\ (ret # loc[t].ret \/ ok # loc[t].ok)
                               THEN <<op, ret, loc[t].ret>> ELSE @]
    /\ loc' = [loc EXCEPT ![t] = InitLoc]
    /\ UNCHANGED <<kind, fixed, dynamic, pc, ghost>>

\* CircularBuffer(size) of the vector variant: cursors, count and sums 0,
\* m_max_size(size), m_buffer(size)
cb_object(size) ==
    [N |-> 0, m_max_size |-> size, m_head |-> 0, m_tail |-> 0, m_count |-> 0,
     m_sum |-> 0, m_sum_squares |-> 0, m_buffer |-> [i \in Slots(size) |-> 0]]

\* the number of elements after which a push evicts
cb_capacity(f) == IF f.N = 0 THEN f.m_max_size ELSE f.N

\* operator=(const CircularBuffer& other), this != &other: m_head, m_tail,
\* m_count, m_buffer, m_sum and m_sum_squares are assigned from other and,
\* if constexpr (N == 0), m_max_size too. The move assignment is defaulted
\* and, the members being std::atomic, deleted: a = std::move(b) is this
\* operator as well
cb_assign(f, other) ==
    [f EXCEPT !.m_head = other.m_head, !.m_tail = other.m_tail,
              !.m_count = other.m_count, !.m_buffer = other.m_buffer,
              !.m_sum = other.m_sum, !.m_sum_squares = other.m_sum_squares,
              !.m_max_size = IF f.N = 0 THEN other.m_max_size ELSE @]

\* two objects of the class CircularBuffer<T>, copy.obj and copy.other,
\* used by one thread: a call on one of them
pair_call(t) ==
    /\ pc[t] = "idle"
    /\ copy.st = "pair"
    /\ \E o \in {"a", "b"}, op \in MutOpsOf(t) :
          LET f == IF o = "a" THEN copy.obj ELSE copy.other
              item == IF op \in PushOps THEN ghost.npush + 1 ELSE 0
              g == cb_after(f, op, item)
          IN /\ copy' = IF o = "a" THEN [copy EXCEPT !.obj = g]
                                    ELSE [copy EXCEPT !.other = g]
             /\ loc' = [loc EXCEPT ![t] = [InitLoc EXCEPT !.op = op, !.item = item,
                                                          !.self = o]]
             /\ ghost' = IF op \in PushOps THEN [ghost EXCEPT !.npush = @ + 1]
                                           ELSE [ghost EXCEPT !.npop = @ + 1]
    /\ UNCHANGED <<kind, fixed, dynamic, pc>>

\* a = b, b = a, a = std::move(b), b = std::move(a)
pair_assign(t) ==
    /\ pc[t] = "idle"
    /\ copy.st = "pair"
    /\ copy.ncopy < MaxCopy
    /\ \E self \in {"a", "b"}, op \in {"copy_assign", "move_assign"} :
          /\ copy' = IF self = "a"
                     THEN [copy EXCEPT !.obj = cb_assign(@, copy.other), !.ncopy = @ + 1]
                     ELSE [copy EXCEPT !.other = cb_assign(@, copy.obj), !.ncopy = @ + 1]
          /\ loc' = [loc EXCEPT ![t] = [InitLoc EXCEPT !.op = op, !.self = self]]
    /\ UNCHANGED <<kind, fixed, dynamic, pc, ghost>>

NextPair == \E t \in Threads : pair_call(t) \/ pair_assign(t)

\* a call starts when the one before it has been made on both objects and
\* has returned the same on both
BothCalled(t) == copy.diff = <<>> /\ (pc[t] = "idle" => loc[t].op = "none")

NextFacade ==
    \E t \in Threads :
        \/ BothCalled(t) /\ (FixedStep(t) \/ DynStep(t))
        \/ BothCalled(t) /\ (read(t) \/ stat(t) \/ dyn_stat(t) \/ dyn_get_stat(t))
        \/ facade_call(t)

\* ---------------------------------------------------------------------
\* initial states
\* ---------------------------------------------------------------------
\* CircularBufferFixed(): m_head(0), m_tail(0), m_count(0), m_sum(0),
\* m_sum_squares(0); m_buffer is not initialised
FixedObject(n, b) ==
    [N |-> n, m_head |-> 0, m_tail |-> 0, m_count |-> 0,
     m_sum |-> 0, m_sum_squares |-> 0, m_buffer |-> b]

InitFixed(n) == fixed \in {FixedObject(n, b) : b \in [Slots(n) -> Junk]}

\* the same with one indeterminate value in all slots (the concurrent
\* specifications, to keep their state space small)
InitFixedUniform(n) == fixed \in {FixedObject(n, [i \in Slots(n) |-> j]) : j \in Junk}

\* CircularBufferDynamic(size): m_max_size(size), m_sum(0), m_sum_squares(0)
InitDynamic(size) ==
    dynamic = [m_max_size |-> size, m_buffer |-> <<>>,
               m_sum |-> 0, m_sum_squares |-> 0, m_mutex |-> 0]

\* no second buffer
NoCopy == [st |-> "none", obj |-> <<>>, ncopy |-> 0, nselect |-> 0]

\* a store nobody uses
IdleFixed == fixed = FixedObject(1, [i \in Slots(1) |-> 0])

\* one thread, either store
Init ==
    /\ kind \in Kinds
    /\ \E n \in 1 .. N :
          IF kind = "fixed" THEN InitFixed(n) /\ InitDynamic(1)
                            ELSE IdleFixed /\ InitDynamic(n)
    /\ pc = [t \in Threads |-> IF t = 1 THEN "idle" ELSE "off"]
    /\ loc = [t \in Threads |-> InitLoc]
    /\ ghost = InitGhost(MaxPush, MaxPop, [t \in Threads |-> "any"])
    /\ copy = NoCopy

Next == NextFixed \/ NextDyn

Spec == Init /\ [][Next]_vars

\* one thread, either store, all calls and all queries
SpecQuery == Init /\ [][NextQuery]_vars

\* one thread, either store with capacity NConc, and a second buffer that
\* is constructed from the first or assigned
InitCopy ==
    /\ kind \in Kinds
    /\ IF kind = "fixed" THEN InitFixedUniform(NConc) /\ InitDynamic(1)
                          ELSE IdleFixed /\ InitDynamic(NConc)
    /\ pc = [t \in Threads |-> IF t = 1 THEN "idle" ELSE "off"]
    /\ loc = [t \in Threads |-> InitLoc]
    /\ ghost = InitGhost(MaxPushConc, MaxPopConc, [t \in Threads |-> "any"])
    /\ copy = NoCopy

SpecCopy == InitCopy /\ [][NextCopy]_vars

\* NThreads threads on the fixed store, each calling push, emplace, pop and
\* top_pop in any order
InitFixedConc ==
    /\ kind = "fixed"
    /\ InitFixedUniform(NConc)
    /\ InitDynamic(1)
    /\ pc = [t \in Threads |-> IF t <= NThreads THEN "idle" ELSE "off"]
    /\ loc = [t \in Threads |-> InitLoc]
    /\ ghost = InitGhost(MaxPushConc, MaxPopConc, [t \in Threads |-> "any"])
    /\ copy = NoCopy

SpecFixedConc == InitFixedConc /\ [][NextFixedConc]_vars

\* NProducers threads that push and one thread that calls top_pop, fixed
\* store of capacity N; one push more than the capacity, so that the
\* producers also meet the full buffer
InitMPSC ==
    /\ kind = "fixed"
    /\ InitFixedUniform(N)
    /\ InitDynamic(1)
    /\ pc = [t \in Threads |-> IF t <= NProducers + 1 THEN "idle" ELSE "off"]
    /\ loc = [t \in Threads |-> InitLoc]
    /\ ghost = InitGhost(N + 1, MaxPopConc,
                         [t \in Threads |-> IF t = 1 THEN "consumer" ELSE "producer"])
    /\ copy = NoCopy

SpecMPSC == InitMPSC /\ [][NextMPSC]_vars

\* NThreads threads on the locked store
InitDynConc ==
    /\ kind = "dynamic"
    /\ IdleFixed
    /\ InitDynamic(NConc)
    /\ pc = [t \in Threads |-> IF t <= NThreads THEN "idle" ELSE "off"]
    /\ loc = [t \in Threads |-> InitLoc]
    /\ ghost = InitGhost(MaxPushConc, MaxPopConc, [t \in Threads |-> "any"])
    /\ copy = NoCopy

SpecDynConc == InitDynConc /\ [][NextDyn]_vars

\* the locked store with capacity NConc, thread 1 copy-constructing from it,
\* the other threads pushing and popping
InitSnapshot ==
    /\ kind = "dynamic"
    /\ IdleFixed
    /\ InitDynamic(NConc)
    /\ pc = [t \in Threads |-> IF t <= NThreads THEN "idle" ELSE "off"]
    /\ loc = [t \in Threads |-> InitLoc]
    /\ ghost = InitGhost(MaxPushConc, MaxPopConc,
                         [t \in Threads |-> IF t = 1 THEN "copier" ELSE "any"])
    /\ copy = NoCopy

SpecSnapshot == InitSnapshot /\ [][NextSnapshot]_vars

\* two locked stores a and b of capacity NConc, both constructed by
\* CircularBufferDynamic(size); NThreads threads assign them to each other
\* (a = b, b = a, copying or moving), push to a and query it
InitAssign ==
    /\ kind = "dynamic"
    /\ IdleFixed
    /\ InitDynamic(NConc)
    /\ pc = [t \in Threads |-> IF t <= NThreads THEN "idle" ELSE "off"]
    /\ loc = [t \in Threads |-> InitLoc]
    /\ ghost = InitGhost(MaxPushConc, MaxPopConc, [t \in Threads |-> "any"])
    /\ copy = [NoCopy EXCEPT !.st = "live",
                             !.obj = [m_max_size |-> NConc, m_buffer |-> <<>>,
                                      m_sum |-> 0, m_sum_squares |-> 0, m_mutex |-> 0]]

SpecAssign == InitAssign /\ [][NextAssign]_vars

\* CircularBuffer(): m_head(0), m_tail(0), m_count(0), m_sum(0),
\* m_sum_squares(0), m_buffer an array that is not initialised (it is given
\* the content of the fixed store's array); CircularBuffer(size): the same
\* with m_max_size(size), m_buffer(size), a vector of size zeros
FacadeObject ==
    IF kind = "fixed"
    THEN [N |-> fixed.N, m_max_size |-> 0, m_head |-> 0, m_tail |-> 0, m_count |-> 0,
          m_sum |-> 0, m_sum_squares |-> 0, m_buffer |-> fixed.m_buffer]
    ELSE [N |-> 0, m_max_size |-> dynamic.m_max_size,
          m_head |-> 0, m_tail |-> 0, m_count |-> 0,
          m_sum |-> 0, m_sum_squares |-> 0,
          m_buffer |-> [i \in Slots(dynamic.m_max_size) |-> 0]]

\* one thread, a store and a CircularBuffer object of the same capacity
\* (CircularBuffer<T, N> beside CircularBufferFixed<T, N>, CircularBuffer<T>
\* beside CircularBufferDynamic<T>), on which the same calls are made
InitFacade ==
    /\ kind \in Kinds
    /\ \E n \in 1 .. N :
          IF kind = "fixed" THEN InitFixed(n) /\ InitDynamic(1)
                            ELSE IdleFixed /\ InitDynamic(n)
    /\ pc = [t \in Threads |-> IF t = 1 THEN "idle" ELSE "off"]
    /\ loc = [t \in Threads |-> InitLoc]
    /\ ghost = InitGhost(MaxPush, MaxPop, [t \in Threads |-> "any"])
    /\ copy = [st |-> "facade", obj |-> FacadeObject, ncopy |-> 0, nselect |-> 0,
               diff |-> <<>>]

SpecFacade == InitFacade /\ [][NextFacade]_vars

\* two objects of CircularBuffer<T>, each constructed with a capacity of
\* its own, and one thread
InitPair ==
    /\ kind = "dynamic"
    /\ IdleFixed
    /\ InitDynamic(1)
    /\ pc = [t \in Threads |-> IF t = 1 THEN "idle" ELSE "off"]
    /\ loc = [t \in Threads |-> InitLoc]
    /\ ghost = InitGhost(MaxPushConc, MaxPopConc, [t \in Threads |-> "any"])
    /\ \E ca \in 1 .. NConc, cb \in 1 .. NConc :
          copy = [st |-> "pair", obj |-> cb_object(ca), other |-> cb_object(cb),
                  ncopy |-> 0, nselect |-> 0]

SpecPair == InitPair /\ [][NextPair]_vars

\* one thread calls reset() once while another thread pushes and pops a
\* bounded number of times (less pushes than NConc), fixed store of
\* capacity NConc
InitReset ==
    /\ kind = "fixed"
    /\ InitFixedUniform(NConc)
    /\ InitDynamic(1)
    /\ pc = [t \in Threads |-> IF t <= 2 THEN "idle" ELSE "off"]
    /\ loc = [t \in Threads |-> InitLoc]
    /\ ghost = InitGhost(MaxPushReset, MaxPopReset,
                         [t \in Threads |-> IF t = 1 THEN "reset" ELSE "any"])
    /\ copy = NoCopy

\* a step of a thread that is inside a call
Running(t) == pc[t] \notin {"idle", "off"} /\ FixedStep(t)

\* a compare-and-swap of the thread that succeeds
CasSucceeds(t) == FixedStep(t) /\ (TailCasBy(t) \/ HeadCasBy(t))

\* the steps of these threads: the buffer holds less than NConc elements,
\* insert finds it not full
NextReset ==
    \E t \in Threads :
        \/ push(t) \/ insert_load(t) \/ insert_full(t) \/ insert_cas(t)
        \/ push_back_write(t) \/ push_back_add(t)
        \/ push_back_tail_store(t) \/ push_back_count(t)
        \/ TopPopStep(t) \/ PopStep(t) \/ ResetStep(t)

SpecReset == InitReset /\ [][NextReset]_vars

\* a thread inside a call goes on running (weak fairness), and a
\* compare_exchange_weak that is tried again and again while the cursor has
\* the expected value does not fail every time (strong fairness); a thread
\* that is not inside a call need not start one
SpecResetFair ==
    /\ SpecReset
    /\ \A t \in Threads : WF_vars(Running(t)) /\ SF_vars(CasSucceeds(t))

\* one producer that pushes one value more than the capacity and one
\* consumer that calls top_pop, fixed store of capacity NConc
InitSPSC ==
    /\ kind = "fixed"
    /\ InitFixedUniform(NConc)
    /\ InitDynamic(1)
    /\ pc = [t \in Threads |-> IF t <= 2 THEN "idle" ELSE "off"]
    /\ loc = [t \in Threads |-> InitLoc]
    /\ ghost = InitGhost(NConc + 1, MaxPopConc,
                         [t \in Threads |-> IF t = 1 THEN "consumer" ELSE "producer"])
    /\ copy = NoCopy

SpecSPSC == InitSPSC /\ [][NextMPSC]_vars

\* one thread that calls mean() and variance() and one that pushes and
\* pops, fixed store of capacity NConc
InitMean ==
    /\ kind = "fixed"
    /\ InitFixedUniform(NConc)
    /\ InitDynamic(1)
    /\ pc = [t \in Threads |-> IF t <= 2 THEN "idle" ELSE "off"]
    /\ loc = [t \in Threads |-> InitLoc]
    /\ ghost = InitGhost(MaxPushConc, MaxPopConc,
                         [t \in Threads |-> IF t = 1 THEN "reader" ELSE "any"])
    /\ copy = NoCopy

SpecMean == InitMean /\ [][NextMean]_vars

\* ---------------------------------------------------------------------
\* properties
\* ---------------------------------------------------------------------
AllIdle == \A t \in Threads : pc[t] \in {"idle", "off"}

\* C1: one thread, either store: k <= capacity pushes into an empty buffer
\* (cursors anywhere) followed by k top_pop calls return the pushed values
\* in push order, and the buffer is empty after the k-th.
C1_FifoOrder ==
    LET pushed == ghost.run.pushed
        popped == ghost.run.popped
    IN (pc[1] = "idle" /\ ghost.run.st = "pop" /\ Len(pushed) <= Capacity) =>
          /\ \A i \in 1 .. Len(popped) : popped[i] = Some(pushed[i])
          /\ Len(popped) = Len(pushed) => Size = 0

C1_Witness ==
    /\ kind = "fixed" /\ pc[1] = "idle" /\ Capacity = N
    /\ ghost.run.st = "pop"
    /\ Len(ghost.run.pushed) = Capacity /\ Len(ghost.run.popped) = Capacity
    /\ fixed.m_head # 0

\* C2: one thread, either store: after C + k pushes (k >= 1) into an empty
\* buffer of capacity C, size() is C and top() is the (k+1)-th pushed
\* value; draining with top_pop returns the last C pushed values in order.
C2_OverwriteOnFull ==
    LET pushed == ghost.run.pushed
        popped == ghost.run.popped
        k == Len(pushed) - Capacity
    IN (pc[1] = "idle" /\ k >= 1) =>
          /\ ghost.run.st = "push" => Size = Capacity /\ Top = Some(pushed[k + 1])
          /\ ghost.run.st = "pop" =>
                /\ \A i \in 1 .. Len(popped) : popped[i] = Some(pushed[k + i])
                /\ Size = Capacity - Len(popped)

C2_Witness ==
    /\ kind = "fixed" /\ pc[1] = "idle" /\ Capacity = N
    /\ ghost.run.st = "pop"
    /\ Len(ghost.run.pushed) >= Capacity + 2 /\ Len(ghost.run.popped) = Capacity

\* C3: one thread, either store: after every call of push, emplace, pop,
\* top_pop and reset 0 <= size() <= capacity, and a push on a full buffer
\* leaves size() at capacity.
C3_SizeBound ==
    pc[1] = "idle" =>
        /\ Size \in 0 .. Capacity
        /\ (loc[1].op \in PushOps /\ loc[1].size0 = Capacity) => Size = Capacity

C3_Witness ==
    /\ kind = "dynamic" /\ pc[1] = "idle" /\ Capacity = N
    /\ loc[1].op \in PushOps /\ loc[1].size0 = Capacity /\ Size = Capacity

\* C4: fixed store, one thread: after every call the running sum is the
\* sum of the live elements and the running sum of squares the sum of
\* their squares; an evicting push subtracts the evicted value once and
\* adds the new value once.
C4_FixedAggregates ==
    (kind = "fixed" /\ pc[1] = "idle") =>
        /\ fixed.m_sum = SeqSum(FixedLive)
        /\ fixed.m_sum_squares = SeqSum(Squares(FixedLive))
        /\ (loc[1].op \in PushOps /\ loc[1].size0 = Capacity) =>
              LET old == loc[1].top0[1]
                  new == loc[1].item
              IN /\ fixed.m_sum = loc[1].sum0 - old + new
                 /\ fixed.m_sum_squares = loc[1].sq0 - old * old + new * new

C4_Witness ==
    /\ kind = "fixed" /\ pc[1] = "idle" /\ Capacity = N
    /\ loc[1].op \in PushOps /\ loc[1].size0 = Capacity
    /\ fixed.m_head # 0 /\ fixed.m_sum > 0

\* C5: dynamic store, one thread: after every mutating call (push,
\* emplace, pop, top_pop, reset) running_sum is the sum of the live
\* elements and running_sum_of_squares the sum of their squares.
C5_DynAggregates ==
    (kind = "dynamic" /\ pc[1] = "idle") =>
        /\ dynamic.m_sum = SeqSum(DynLive)
        /\ dynamic.m_sum_squares = SeqSum(Squares(DynLive))

\* C6: fixed store, two or more threads pushing and popping: m_count
\* stays within 0 .. N at every step.
C6_CountBound == fixed.m_count \in 0 .. Capacity

\* C7: fixed store: producers push at most N distinct values into the
\* empty buffer, then, all of them having returned, one thread drains it
\* with top_pop: the drained values are exactly the pushed values.
DrainDone ==
    \/ ghost.c7 = "done"
    \/ ghost.c7 = "draining" /\ AllIdle /\ fixed.m_count = 0

C7_DrainIntegrity ==
    DrainDone =>
        /\ Len(ghost.out) = ghost.npush
        /\ Range(ghost.out) = 1 .. ghost.npush

\* C8: fixed store, producers pushing without overflow while the consumer
\* calls top_pop: the values top_pop returns are the pushed items, in the
\* order in which the pushes' compare-and-swap on m_tail succeeded.
C8_CasOrder ==
    (ghost.evictions = 0 /\ ~ghost.nonTopPop) =>
        /\ Len(ghost.out) <= Len(ghost.casOrder)
        /\ \A i \in 1 .. Len(ghost.out) : ghost.out[i] = ghost.casOrder[i]

\* C9: dynamic store, any interleaving of push, emplace, pop, top_pop,
\* top, last, size, empty (and reset): every call returns what the bounded
\* FIFO returns when the calls run one at a time in the order in which
\* they acquired m_mutex; the deque is that FIFO whenever the mutex is
\* free, and it never holds more than capacity elements.
C9_DynLinearizable ==
    /\ Len(dynamic.m_buffer) <= dynamic.m_max_size
    /\ MutexFree => dynamic.m_buffer = ghost.afifo
    /\ \A t \in Threads :
          (pc[t] = "idle" /\ loc[t].op # "none") =>
              /\ loc[t].ret = loc[t].exp_ret
              /\ loc[t].ok = loc[t].exp_ok

C9_Witness ==
    \E t, u \in Threads :
        /\ t # u
        /\ pc[t] = "dyn_lock" /\ loc[t].op = "top_pop"
        /\ pc[u] = "dyn_pop_front_unsafe" /\ dynamic.m_mutex = u
        /\ Len(dynamic.m_buffer) = dynamic.m_max_size

\* C10: lock-free ring, any interleaving of push and pop/top_pop: the
\* number of pop/top_pop calls that reported success never exceeds the
\* number of push calls started, and size() <= capacity once all threads
\* have finished.
C10_PopsBounded ==
    /\ ghost.npopok <= ghost.npush
    /\ AllIdle => fixed.m_count <= Capacity

\* C11: fixed store, integer elements, any interleaving of pushes
\* (evicting ones included) and pops: what is subtracted from the running
\* sum for an element that leaves is what was added when it entered, so
\* once all calls have returned sum(), that is m_sum, is the sum of the
\* elements a following drain returns.
C11_ConcSum == AllIdle => fixed.m_sum = SeqSum(FixedLive)

\* C12: either store, one thread: variance() and standard_deviation()
\* called on a buffer that holds exactly one element, or none, return an
\* empty optional.
C12_VarianceUndefined ==
    (pc[1] = "idle" /\ loc[1].op \in {"variance", "standard_deviation"} /\ loc[1].size0 <= 1) =>
        loc[1].ret = nullopt

\* C13: either store, one thread: whenever size() is 0, on a fresh buffer
\* as after any calls that emptied it, sum, mean, variance,
\* standard_deviation, minimum, maximum, sorted, reverse_sorted and median
\* return an empty optional.
C13_EmptyStatistics ==
    (pc[1] = "idle" /\ Size = 0) =>
        /\ \A op \in StatOps : (IF kind = "fixed" THEN FixedStat(op) ELSE DynStat(op)) = nullopt
        /\ loc[1].op \in StatOps => loc[1].ret = nullopt /\ ~loc[1].ok

C13_Witness ==
    /\ pc[1] = "idle" /\ Size = 0
    /\ loc[1].op = "sum" /\ loc[1].ret = nullopt
    /\ Sum # 0
    /\ ghost.npush > Capacity /\ Capacity = N

\* C14: either store, one thread: pop() on an empty buffer returns false,
\* top(), last() and top_pop() return an empty optional; the call neither
\* waits nor retries, and no step of it changes head, tail, count, the
\* stored elements or the running aggregates.
EmptyCallOps == {"pop", "top", "last", "top_pop"}

EmptyCallPcs ==
    {"idle", "pop_front_load", "pop_front_empty", "get_top_pop_load",
     "get_top_pop_empty", "dyn_lock", "dyn_pop_front_empty",
     "dyn_get_top_pop_empty", "dyn_get_top", "dyn_get_last"}

DynMembers == [dynamic EXCEPT !.m_mutex = 0]

C14_EmptySoft ==
    [][(loc'[1].op \in EmptyCallOps /\ loc'[1].size0 = 0) =>
          /\ fixed' = fixed
          /\ DynMembers' = DynMembers
          /\ pc'[1] \in EmptyCallPcs
          /\ pc'[1] = "dyn_lock" => MutexFree'
          /\ pc'[1] = "idle" => loc'[1].ret = nullopt /\ ~loc'[1].ok]_vars

C14_Witness ==
    /\ kind = "fixed" /\ pc[1] = "idle"
    /\ loc[1].op = "top_pop" /\ loc[1].size0 = 0 /\ loc[1].ret = nullopt
    /\ fixed.m_head # 0 /\ fixed.m_sum = 0
    /\ ghost.npush > Capacity

\* C19: either store, one thread, any non-empty state reached by pushes and
\* pops (head anywhere, buffer partly full or full): minimum() returns the
\* smallest and maximum() the largest live element.
C19_MinMax ==
    (pc[1] = "idle" /\ loc[1].size0 > 0) =>
        /\ loc[1].op = "minimum" => loc[1].ret = Some(min_element(Live))
        /\ loc[1].op = "maximum" => loc[1].ret = Some(max_element(Live))

\* C20: either store, one thread, any non-empty state (partly full
\* included): median() is the middle element of the sorted live elements
\* when size() is odd, the average of the two middle ones when it is even.
LiveMedian ==
    LET sorted_live == sort(Live)
        n == Len(sorted_live)
    IN IF n % 2 = 1 THEN Double(sorted_live[(n + 1) \div 2])
       ELSE <<sorted_live[n \div 2] + sorted_live[n \div 2 + 1], 2>>

C20_Median ==
    (pc[1] = "idle" /\ loc[1].op = "median" /\ loc[1].size0 > 0) =>
        /\ loc[1].ret # nullopt
        /\ DoubleEq(loc[1].ret[1], LiveMedian)

\* C15: one thread, either store, any reachable state of the source
\* (wrapped cursors, evictions): the buffer copy-constructed, copy-assigned
\* or move-constructed from it has the size() and the sum() the source had,
\* and draining it with top_pop yields what draining the source, as it was
\* before, yields.
DstSize == IF kind = "fixed" THEN copy.obj.m_count
           ELSE Len(DynObj(loc[1].self).m_buffer)

DstSum == IF kind = "fixed" THEN copy.obj.m_sum ELSE DynObj(loc[1].self).m_sum

DstLive == IF kind = "fixed" THEN FixedLiveOf(copy.obj)
           ELSE DynObj(loc[1].self).m_buffer

C15_CopyRoundTrip ==
    (pc[1] = "idle" /\ loc[1].op \in {"copy_construct", "copy_assign", "move_construct"}) =>
        /\ DstSize = loc[1].size0
        /\ DstSize > 0 => DstSum = loc[1].sum0
        /\ DstLive = loc[1].live0

C15_Witness ==
    /\ kind = "fixed" /\ pc[1] = "idle"
    /\ loc[1].op = "copy_construct"
    /\ ghost.npush > Capacity /\ ghost.npopok >= 1
    /\ fixed.m_head # 0 /\ fixed.m_count = Capacity
    /\ FixedLiveOf(copy.obj) = FixedLive

\* C16: one thread, either store: once a buffer has been copied, no step
\* of a push, emplace, pop, top_pop or reset call on one of the two buffers
\* changes anything in the other one (its size, top, last, sum and drained
\* sequence stay what they were), whichever of the two the calls are made
\* on.
MutOps == PushOps \cup {"pop", "top_pop", "reset"}

C16_CopyIndependent ==
    [][(copy.st = "live" /\ loc'[1].op \in MutOps) => copy' = copy]_vars

C16_Witness ==
    /\ kind = "fixed" /\ pc[1] = "idle"
    /\ copy.st = "live" /\ copy.nselect = 1
    /\ loc[1].op \in PushOps /\ loc[1].size0 = Capacity
    /\ FixedLiveOf(copy.obj) # <<>>
    /\ Range(FixedLiveOf(copy.obj)) \cap Range(FixedLive) = {}

\* C17: locked store: a buffer that was copy-constructed from a source
\* other threads were pushing to and popping from holds a consistent
\* snapshot: its running sum and its sum of squares are the sums over
\* exactly the elements it holds.
C17_Snapshot ==
    (copy.st = "live" /\ ghost.made = "copy_construct") =>
        /\ copy.obj.m_sum = SeqSum(copy.obj.m_buffer)
        /\ copy.obj.m_sum_squares = SeqSum(Squares(copy.obj.m_buffer))

\* C18: locked store: no interleaving of assignments a = b and b = a
\* (copy or move, each taking both buffers' mutexes), pushes and queries
\* deadlocks: whenever some thread is inside a call, some thread inside a
\* call can take its next step; a thread that has to wait holds no mutex;
\* and no thread tries to acquire a mutex it already holds. (That every
\* assignment then returns depends on how std::lock retries, which the
\* library decides.)
InCall(t) == pc[t] \notin {"idle", "off"}

Holds(t, o) == Mutex(o) = t

Waits(t) == InCall(t) /\ ~ENABLED AssignStepOf(t)

Relocks(t) ==
    \/ pc[t] = "dyn_lock" /\ Holds(t, "a")
    \/ pc[t] = "scoped_lock_first" /\ Holds(t, loc[t].first)
    \/ pc[t] = "scoped_lock_try" /\ Holds(t, Other(loc[t].first))

C21_Sorted ==
    (pc[1] = "idle" /\ loc[1].size0 > 0) =>
        /\ loc[1].op = "sorted" => loc[1].ret = Some(sort(Live))
        /\ loc[1].op = "reverse_sorted" => loc[1].ret = Some(sort_greater(Live))

\* C22: one thread, either store, n = size() >= 2, also after evictions:
\* variance() is the Bessel-corrected sample variance of the live elements,
\* variance * n * (n - 1) = n * (sum of their squares) - (their sum)^2, and
\* standard_deviation() is its square root.
SampleVariance(s) ==
    <<Len(s) * SeqSum(Squares(s)) - SeqSum(s) * SeqSum(s), Len(s) * (Len(s) - 1)>>

C22_Variance ==
    (pc[1] = "idle" /\ loc[1].size0 >= 2) =>
        /\ loc[1].op = "variance" =>
              /\ loc[1].ret # nullopt
              /\ DoubleEq(loc[1].ret[1], SampleVariance(Live))
        /\ loc[1].op = "standard_deviation" =>
              /\ loc[1].ret # nullopt
              /\ DoubleEq(loc[1].ret[1].sqrt, SampleVariance(Live))

\* C23: one thread, either store: after reset() has returned the buffer
\* is in its initial empty state: size() is 0, and after any pushes that
\* follow (not more than the capacity) top, last, size, sum, minimum and
\* maximum return what they return on a freshly constructed buffer of the
\* same capacity after the same pushes.
FreshOps == {"top", "last", "size", "sum", "minimum", "maximum"}

FreshPushed == IF ghost.run.st = "push" THEN ghost.run.pushed ELSE <<>>

FreshResult(op, pushed) ==
    CASE op = "size" -> Some(Len(pushed))
      [] pushed = <<>> -> nullopt
      [] op = "top" -> Some(pushed[1])
      [] op = "last" -> Some(pushed[Len(pushed)])
      [] op = "sum" -> Some(SeqSum(pushed))
      [] op = "minimum" -> Some(min_element(pushed))
      [] OTHER -> Some(max_element(pushed))

FreshBehaviour ==
    /\ loc[1].op = "reset" => Size = 0
    /\ loc[1].op \in FreshOps => loc[1].ret = FreshResult(loc[1].op, FreshPushed)

C23_ResetFresh ==
    (pc[1] = "idle" /\ ghost.since = "reset" /\ Len(FreshPushed) <= Capacity) =>
        FreshBehaviour

\* C24: one thread, either store: on a non-empty buffer top() returns the
\* oldest live element, the value the next top_pop would return; and no
\* step of top(), last(), size(), empty() or of a statistics query changes
\* head, tail, count, the stored elements or the running aggregates.
QueryOps == ReadOps \cup StatOps

C24_QueryFrame ==
    [][loc'[1].op \in QueryOps =>
          /\ fixed' = fixed
          /\ DynMembers' = DynMembers
          /\ (pc'[1] = "idle" /\ loc'[1].op = "top" /\ loc'[1].size0 > 0) =>
                 loc'[1].ret = Some(Head(Live'))]_vars

C24_Witness ==
    /\ kind = "fixed" /\ pc[1] = "idle"
    /\ loc[1].op = "top" /\ loc[1].size0 > 0
    /\ ghost.npush > Capacity /\ ghost.npopok >= 1
    /\ fixed.m_head # 0
    /\ loc[1].ret = Some(Head(FixedLive))
    /\ loc[1].ret # Some(fixed.m_buffer[0])

\* C25: one thread, either store, non-empty buffer: last() returns the
\* value that was pushed or emplaced most recently (the values pushed are
\* the numbers of the push calls), also when the tail cursor has wrapped to
\* index 0 and after evictions and pops.
C25_Last ==
    (pc[1] = "idle" /\ loc[1].op = "last" /\ loc[1].size0 > 0) =>
        loc[1].ret = Some(ghost.npush)

C25_Witness ==
    /\ kind = "fixed" /\ pc[1] = "idle"
    /\ loc[1].op = "last" /\ loc[1].size0 > 0
    /\ fixed.m_tail = 0
    /\ ghost.npush > Capacity /\ ghost.npopok >= 1
    /\ loc[1].ret = Some(ghost.npush)

\* C26: one thread, either store, any reachable state: iterating from
\* begin() to end(), or from rbegin() to rend(), visits the live elements
\* and nothing else: the visited values are, as a multiset, the live
\* elements, and there are size() of them.
C26_Iteration ==
    (pc[1] = "idle" /\ loc[1].op \in IterOps) =>
        /\ Len(loc[1].ret[1]) = Size
        /\ sort(loc[1].ret[1]) = sort(Live)

\* C27: one thread: every call (push, emplace, pop, top, last, top_pop,
\* size, empty, reset, the statistics) returns on CircularBuffer<T, N>,
\* N > 0, what the same call returns on CircularBufferFixed<T, N> after the
\* same calls.
C27_FacadeFixed == (kind = "fixed" /\ copy.st = "facade") => copy.diff = <<>>

\* C28: one thread: every call returns on CircularBuffer<T> constructed
\* with capacity c >= 1 what the same call returns on
\* CircularBufferDynamic<T>(c) after the same calls.
C28_FacadeDynamic == (kind = "dynamic" /\ copy.st = "facade") => copy.diff = <<>>

\* a thread inside a call can take a step
CanStep(t) == pc[t] \in {"idle", "off"} \/ ENABLED FixedStep(t)

\* a compare-and-swap that would succeed is made to fail (the cursor leaves
\* the value the thread loaded, by a step that is not its own
\* compare-and-swap) by nothing but a successful compare-and-swap of
\* another thread on the same cursor
CasFailsByCas ==
    \A t \in Threads :
        /\ (TailLoaded(t) /\ fixed.m_tail = loc[t].current_tail
                /\ fixed'.m_tail # fixed.m_tail /\ ~TailCasBy(t))
              => \E u \in Threads \ {t} : TailCasBy(u)
        /\ (HeadLoaded(t) /\ fixed.m_head = loc[t].current_head
                /\ fixed'.m_head # fixed.m_head /\ ~HeadCasBy(t))
              => \E u \in Threads \ {t} : HeadCasBy(u)

\* C29: fixed store, threads calling push, emplace, pop and top_pop: no
\* state is a deadlock (every thread inside a call can take a step), and a
\* compare-and-swap on m_head or m_tail fails only because another thread's
\* compare-and-swap on that cursor succeeded after the value was loaded.
C29_LockFree == [](\A t \in Threads : CanStep(t)) /\ [][CasFailsByCas]_vars

\* the first part of C29_LockFree, and the second for the steps in which
\* no thread is inside push_back (emplace_back has no m_tail.store)
C29_NoDeadlock == \A t \in Threads : CanStep(t)

C29_WithoutStore ==
    [][(\A t \in Threads : loc[t].op \notin {"push", "push_move"}) => CasFailsByCas]_vars

\* reset() of thread 1 returns with this step
ResetReturns == loc[1].op = "reset" /\ pc[1] # "idle" /\ pc'[1] = "idle"

C31_RefinesFifo ==
    (pc[1] = "idle" /\ Sequential /\ copy.st = "none"
        /\ loc[1].op \in PushOps \cup ReadOps \cup {"pop", "top_pop", "reset"})
    => /\ loc[1].ret = loc[1].exp_ret
       /\ loc[1].ok = loc[1].exp_ok
       /\ Live = ghost.afifo

\* top_pop and last have returned values of the lock-free store after the
\* cursors have wrapped and an element was evicted
C31_Witness ==
    /\ kind = "fixed" /\ pc[1] = "idle"
    /\ loc[1].op \in {"top_pop", "last"}
    /\ loc[1].ret # nullopt /\ loc[1].ret = loc[1].exp_ret
    /\ ghost.npush > Capacity + 1 /\ ghost.npopok >= 2
    /\ fixed.m_tail < fixed.m_head

\* C32: fixed store, one thread: a successful pop or top_pop takes 1 from
\* m_count and moves m_head on by 1 modulo N, m_tail stays; a push into a
\* buffer that is not full adds 1 to m_count and moves m_tail on by 1 modulo
\* N, m_head stays; a push into a full buffer moves m_head and m_tail on by
\* 1 modulo N and m_count stays N.
C32_Cursors ==
    LET l == loc[1]
        N_ == fixed.N
    IN (pc[1] = "idle" /\ Tracked) =>
          /\ (l.op \in {"pop", "top_pop"} /\ l.ok) =>
                /\ fixed.m_count = l.size0 - 1
                /\ fixed.m_head = (l.head0 + 1) % N_
                /\ fixed.m_tail = l.tail0
          /\ (l.op \in PushOps /\ l.size0 < N_) =>
                /\ fixed.m_count = l.size0 + 1
                /\ fixed.m_tail = (l.tail0 + 1) % N_
                /\ fixed.m_head = l.head0
          /\ (l.op \in PushOps /\ l.size0 = N_) =>
                /\ fixed.m_count = N_
                /\ fixed.m_tail = (l.tail0 + 1) % N_
                /\ fixed.m_head = (l.head0 + 1) % N_

\* a push into a full buffer has returned and has wrapped both cursors to 0
C32_Witness ==
    /\ pc[1] = "idle" /\ Tracked
    /\ loc[1].op \in PushOps /\ loc[1].size0 = fixed.N
    /\ fixed.N = 2 /\ loc[1].head0 = 1 /\ loc[1].tail0 = 1
    /\ fixed.m_head = 0 /\ fixed.m_tail = 0 /\ fixed.m_count = 2
    /\ ghost.npopok >= 1

\* C33: fixed store, threads running at the same time: m_head and m_tail
\* are always in 0 .. N - 1, and a step that changes one of them sets it to
\* the successor modulo N of the value it had: no cursor moves backward.
C33_CursorsAdvance ==
    /\ [](fixed.m_head \in Slots(fixed.N) /\ fixed.m_tail \in Slots(fixed.N))
    /\ [][/\ fixed'.m_head # fixed.m_head => fixed'.m_head = increment(fixed.m_head)
          /\ fixed'.m_tail # fixed.m_tail => fixed'.m_tail = increment(fixed.m_tail)]_vars

\* the part of C33_CursorsAdvance about m_head
C33_HeadAdvances ==
    [][fixed'.m_head # fixed.m_head => fixed'.m_head = increment(fixed.m_head)]_vars

\* the step is the head compare-and-swap of pop_front_unsafe, called by the
\* insert of thread t, and it succeeds: the eviction takes effect
Evicts(t) == pc[t] = "pop_front_unsafe_cas" /\ pc'[t] = "pop_front_unsafe_sub"

\* C34: fixed store, threads running at the same time: one push call evicts
\* at most one element, and when its eviction takes effect the buffer holds
\* exactly N elements (m_count = N): a push takes nothing from a buffer that
\* is no longer full.
C34_EvictsWhenFull ==
    [][\A t \in Threads :
          Evicts(t) => (fixed.m_count = fixed.N /\ loc[t].evicted = 0)]_vars

\* the same for one thread alone
C34_Sequential ==
    [][\A t \in Threads :
          (Evicts(t) /\ Sequential) => (fixed.m_count = fixed.N /\ loc[t].evicted = 0)]_vars

\* top_pop of thread t returns with this step
TopPopReturns(t) == pc[t] = "get_top_pop_dec" /\ pc'[t] = "idle"

NoDuplicates(q) == \A i, j \in 1 .. Len(q) : q[i] = q[j] => i = j

\* C35: fixed store, one producer that pushes more than N values and one
\* consumer running at the same time: a value top_pop returns is the value
\* of an element the buffer held when top_pop advanced the head, no value
\* is returned twice, and when both threads are outside every call no
\* returned value is still in the buffer.
C35_PopsLive ==
    /\ [](NoDuplicates(ghost.out))
    /\ [](AllIdle => Range(ghost.out) \cap Range(FixedLive) = {})
    /\ [][\A t \in Threads :
             TopPopReturns(t) => loc[t].value \in Range(loc[t].live0)]_vars

\* the parts of C35_PopsLive
C35_NoDuplicates == NoDuplicates(ghost.out)

C35_NotKept == AllIdle => Range(ghost.out) \cap Range(FixedLive) = {}

C35_WasLive ==
    [][\A t \in Threads :
          TopPopReturns(t) => loc[t].value \in Range(loc[t].live0)]_vars
\* C36: fixed store, mean() or variance() while another thread pops: a call
\* that returns a value has divided by a count of at least 1, the count its
\* emptiness test saw; variance has count_ >= 2 and count_ - 1 >= 1.
MeanReturned(t) == pc[t] = "idle" /\ loc[t].op \in MeanOps /\ loc[t].ret # nullopt

C36_MeanDivisor ==
    (MeanReturned(1) /\ loc[1].op = "mean") =>
        loc[1].divisor >= 1 /\ loc[1].divisor = loc[1].tested

C36_VarianceCount ==
    (MeanReturned(1) /\ loc[1].op = "variance") =>
        loc[1].count_ >= 2 /\ loc[1].count_ - 1 >= 1

C36_VarianceMean ==
    (MeanReturned(1) /\ loc[1].op = "variance" /\ loc[1].divided) =>
        loc[1].divisor >= 1 /\ loc[1].divisor = loc[1].tested

C36_NoZeroDivisor == C36_MeanDivisor /\ C36_VarianceCount /\ C36_VarianceMean

\* C37: locked store, one thread: a buffer that was moved from (move
\* construction or move assignment) is a valid empty buffer: size() is 0,
\* and after pushes into it (not more than its capacity, no pop or reset)
\* size() is their number and sum() the sum of those values alone.
PushedSinceMove ==
    [i \in 1 .. (ghost.npush - ghost.moved.npush0) |-> ghost.moved.npush0 + i]

MovedFrom ==
    /\ kind = "dynamic" /\ pc[1] = "idle" /\ copy.st = "live"
    /\ ghost.moved.st = "a"
    /\ ghost.npop = ghost.moved.npop0
    /\ Len(PushedSinceMove) <= Capacity

C37_MovedFromSize == MovedFrom => Size = Len(PushedSinceMove)

C37_MovedFromSum ==
    (MovedFrom /\ PushedSinceMove # <<>>) => dyn_get_sum = Some(SeqSum(PushedSinceMove))

C37_MovedFrom == C37_MovedFromSize /\ C37_MovedFromSum

\* C38: one thread, either store, every reachable state: emplace(args)
\* leaves the buffer in the state push(T(args)) leaves it in: same size,
\* head, tail, stored sequence and aggregates, the oldest element evicted
\* when the buffer was full.
PushBackOf(pre, item) ==
    IF kind = "fixed" THEN fixed_push_back(pre, item) ELSE dyn_push_back(pre, item)

PushReturned == pc[1] = "idle" /\ Sequential /\ copy.st = "none" /\ loc[1].op \in PushOps

C38_EmplaceAsPush == PushReturned => Store = PushBackOf(loc[1].pre, loc[1].item)

C38_Witness ==
    /\ PushReturned /\ kind = "fixed"
    /\ loc[1].op = "emplace"
    /\ loc[1].pre.m_count = fixed.N /\ loc[1].pre.m_tail = fixed.N - 1
    /\ loc[1].pre.m_head # fixed.m_head
    /\ fixed.m_tail = 0 /\ fixed.m_count = fixed.N
    /\ ghost.npopok >= 1

C38_WitnessDynamic ==
    /\ PushReturned /\ kind = "dynamic"
    /\ loc[1].op = "emplace"
    /\ Len(loc[1].pre.m_buffer) = dynamic.m_max_size
    /\ Head(dynamic.m_buffer) # Head(loc[1].pre.m_buffer)

\* C39: the capacity of a buffer never changes after construction: no
\* call, and no copy or move assignment from a buffer that was constructed
\* with another runtime capacity, changes the number of elements the buffer
\* holds at most.
CapacityKept ==
    /\ cb_capacity(copy'.obj) = cb_capacity(copy.obj)
    /\ cb_capacity(copy'.other) = cb_capacity(copy.other)

C39_CapacityFixed == [][CapacityKept]_vars

\* the same for the calls other than assignments
C39_CallsKeepCapacity ==
    [][(\A t \in Threads : loc'[t].op \notin CopyOps) => CapacityKept]_vars

====
